---- MODULE Spec2Model ----
(***************************************************************************)
(* A model of the OpenDec compiler's processing stage: the Compilation     *)
(* State (components/state.py) and the Processor (components/processor.py) *)
(* walking a list of parser nodes, with the validator                      *)
(* (utils/validation.py) and the node re-encoding (components/node.py).    *)
(*                                                                         *)
(* Text is modelled by TLA+ strings, so the output stream is the very text *)
(* the Processor writes.  A float is modelled by an exact rational         *)
(* [num, den]; int(x) of a non-negative float is the floor of the          *)
(* rational.                                                               *)
(***************************************************************************)
EXTENDS Integers, Sequences, FiniteSets, TLC

(***************************************************************************)
(* constants.py                                                            *)
(***************************************************************************)
PHONEMES_CONSONANTS ==
    {"b", "ch", "d", "dh", "dx", "f", "g", "hx", "jh", "k", "l", "lx", "m",
     "n", "nx", "p", "r", "rx", "s", "sh", "t", "th", "tx", "v", "w", "yx",
     "z", "zh"}

PHONEMES_VOWELS ==
    {"aa", "ae", "ah", "ao", "aw", "ax", "ay", "eh", "el", "en", "er", "ey",
     "ih", "ir", "iy", "or", "ow", "oy", "rr", "uh", "ur", "uw", "yu"}

\* The secondary-stress symbol is the grave accent, a character a TLA+ string
\* cannot hold; it is written GRAVE here.
GRAVE == "&grave;"

PHONEMES_SYMBOLS == {",", ".", "_", "'", GRAVE, "\""}

PHONEMES == PHONEMES_CONSONANTS \cup PHONEMES_VOWELS \cup PHONEMES_SYMBOLS

PHONEMES_NOLENGTH == {",", ".", "'", GRAVE, "\""}

PHONEMES_NOPITCH == PHONEMES_CONSONANTS \cup PHONEMES_SYMBOLS

VOICE_DEFAULT_NAMES ==
    {"Betty", "Dennis", "Frank", "Harry", "Kit", "Paul", "Rita", "Ursula",
     "Wendy"}

\* VOICE_MINMAX: parameter keyword -> <<min, max>>.
VOICE_MINMAX ==
    [sx |-> <<0, 1>>, hs |-> <<65, 145>>, f4 |-> <<2000, 4650>>,
     f5 |-> <<2500, 4950>>, b4 |-> <<100, 2048>>, b5 |-> <<100, 2048>>,
     br |-> <<0, 72>>, lx |-> <<0, 100>>, sm |-> <<0, 100>>,
     ri |-> <<0, 100>>, nf |-> <<0, 100>>, la |-> <<0, 100>>,
     bf |-> <<0, 40>>, hr |-> <<2, 100>>, sr |-> <<1, 100>>,
     as |-> <<0, 100>>, qu |-> <<0, 100>>, ap |-> <<50, 350>>,
     pr |-> <<0, 250>>, lo |-> <<0, 86>>, gv |-> <<0, 86>>,
     gh |-> <<0, 86>>, gf |-> <<0, 86>>, g1 |-> <<0, 86>>,
     g2 |-> <<0, 86>>, g3 |-> <<0, 86>>, g4 |-> <<0, 86>>]

VOICE_PARAMETERS == DOMAIN VOICE_MINMAX

\* VOICE_DEFAULTS is imported by state.py from constants.py, which does not
\* define it; the unit tests pin a registered voice to exactly the supplied
\* keys, i.e. an empty table of defaults.
VOICE_DEFAULTS == << >>

\* The fixed duration of a consonant of a sound, in milliseconds.
CONSONANT_LENGTH == 15

\* The milliseconds of one minute, the numerator of the tempo multiplier.
MS_PER_MINUTE == 60000

(***************************************************************************)
(* Numbers.  A length is a rational [num, den] with den > 0, in lowest     *)
(* terms; an int is the rational with den = 1.                             *)
(***************************************************************************)
RECURSIVE GCD(_, _)
GCD(a, b) == IF b = 0 THEN a ELSE GCD(b, a % b)

Rat(n, d) ==
    LET g == GCD(n, d)
    IN  IF g = 0 THEN [num |-> 0, den |-> 1]
        ELSE [num |-> n \div g, den |-> d \div g]

Int_(n) == [num |-> n, den |-> 1]

\* The product of two non-negative numbers rounded up instead: a variant of
\* int(length * multiplier) the scaling property is checked against as well.
CeilOfProduct(x, m) ==
    ((x.num * m.num) + (x.den * m.den) - 1) \div (x.den * m.den)

\* int(length * multiplier): the product of two non-negative numbers,
\* truncated.
IntOfProduct(x, m) == (x.num * m.num) \div (x.den * m.den)

\* x > 0 for a rational.
Positive(x) == x.num > 0

(***************************************************************************)
(* components/node.py: the parser nodes.  A parameter is tagged with its   *)
(* Python type: t = "int" (value i), "str" (value s), "float" (value f)    *)
(* or, in a voice's parameter map, "kv" (key s, value i).                  *)
(***************************************************************************)
PInt(i) == [t |-> "int", i |-> i, s |-> ""]

PStr(s) == [t |-> "str", i |-> 0, s |-> s]

PKv(k, v) == [t |-> "kv", i |-> v, s |-> k]

CommandNode(command, parameters, context) ==
    [type |-> "CommandNode", command |-> command, parameters |-> parameters,
     context |-> context]

PhonemeNode(phoneme, length, pitch) ==
    [type |-> "PhonemeNode", phoneme |-> phoneme, length |-> length,
     pitch |-> pitch]

VoiceNode(name, parameters) ==
    [type |-> "VoiceNode", command |-> "voice", name |-> name,
     parameters |-> parameters]

EofNode == [type |-> "EofNode"]

\* The digits after the point of r/den, r < den, den a divisor of a power
\* of ten.
RECURSIVE FractionDigits(_, _)
FractionDigits(r, den) ==
    IF r = 0 THEN ""
    ELSE ToString((r * 10) \div den) \o FractionDigits((r * 10) % den, den)

\* The least e with x * 10^e >= 1, for 0 < x < 1.
RECURSIVE Exponent(_)
Exponent(x) ==
    IF x.num >= x.den THEN 0 ELSE 1 + Exponent(Rat(x.num * 10, x.den))

RECURSIVE Shifted(_, _)
Shifted(x, e) == IF e = 0 THEN x ELSE Shifted(Rat(x.num * 10, x.den), e - 1)

\* str(x) of a float: Python writes a value below 0.0001 with an exponent
\* (1e-05) and the others here as decimals with at least one digit after
\* the point (1.0, 0.5).
StrFloat(x) ==
    IF x.num > 0 /\ x.num * 10000 < x.den
    THEN LET e == Exponent(x)
             m == Shifted(x, e)
         IN  ToString(m.num \div m.den)
                 \o (IF m.num % m.den = 0 THEN ""
                     ELSE "." \o FractionDigits(m.num % m.den, m.den))
                 \o "e-" \o (IF e < 10 THEN "0" ELSE "") \o ToString(e)
    ELSE ToString(x.num \div x.den) \o "."
             \o (IF x.num % x.den = 0 THEN "0"
                 ELSE FractionDigits(x.num % x.den, x.den))

\* str(p) of a command parameter.
StrParam(p) ==
    IF p.t = "int" THEN ToString(p.i)
    ELSE IF p.t = "float" THEN StrFloat(p.f)
    ELSE p.s

\* f"{length}" of a phoneme length.  Every length the Processor prints has
\* passed int(); a length with a fraction is a float the Parser has read.
StrLength(x) ==
    IF x.den = 1 THEN ToString(x.num)
    ELSE StrFloat(x)

\* PhonemeNode.__repr__
ReprPhoneme(n) ==
    LET inner ==
            IF n.pitch + n.length.num > 0
            THEN "<" \o (IF Positive(n.length) THEN StrLength(n.length) ELSE "")
                     \o (IF n.pitch > 0 THEN "," \o ToString(n.pitch) ELSE "")
                     \o ">"
            ELSE ""
    IN  "[" \o n.phoneme \o inner \o "]"

\* VoiceNode.__repr__
RECURSIVE JoinVoiceParams(_, _)
JoinVoiceParams(ps, i) ==
    IF i > Len(ps) THEN ""
    ELSE (IF i > 1 THEN ", " ELSE "")
         \o ps[i].s \o ": " \o ToString(ps[i].i)
         \o JoinVoiceParams(ps, i + 1)

ReprVoice(n) == "[:voice " \o n.name \o "] {" \o JoinVoiceParams(n.parameters, 1) \o "}"

RECURSIVE JoinParams(_, _)
JoinParams(ps, i) ==
    IF i > Len(ps) THEN ""
    ELSE " " \o StrParam(ps[i]) \o JoinParams(ps, i + 1)

\* CommandNode.__repr__, and str(node) of any node.
RECURSIVE Repr(_), JoinContext(_, _)
Repr(n) ==
    IF n.type = "PhonemeNode" THEN ReprPhoneme(n)
    ELSE IF n.type = "VoiceNode" THEN ReprVoice(n)
    ELSE IF n.type = "EofNode" THEN "<EOF>"
    ELSE "[:" \o n.command \o JoinParams(n.parameters, 1) \o "]"
         \o (IF Len(n.context) > 0
             THEN " {" \o JoinContext(n.context, 1) \o " }"
             ELSE "")

JoinContext(cs, i) ==
    IF i > Len(cs) THEN ""
    ELSE " " \o Repr(cs[i]) \o JoinContext(cs, i + 1)

(***************************************************************************)
(* Errors.  An error is the text "<exception class>:<type>"; "" is no      *)
(* error.  Then(e1, e2) is the error of running e1's check and, when it    *)
(* passes, e2's.                                                           *)
(***************************************************************************)
NoError == ""

Then(e1, e2) == IF e1 # NoError THEN e1 ELSE e2

RegistrationError == "StateException:RegistrationError"

RuntimeError == "ProcessorException:RuntimeError"

NameError == "ProcessorException:NameError"

FileNotFoundError == "ProcessorException:FileNotFoundError"

TypeError == "ProcessorException:TypeError"

\* Python's own exceptions, raised by the interpreter and not by the code.
IndexError == "IndexError"

ZeroDivisionError == "ZeroDivisionError"

RecursionError == "RecursionError"

(***************************************************************************)
(* components/state.py: the Compilation State.  phrases, sounds and voices *)
(* are functions from the registered names; a voice's parameters are a     *)
(* dict, a sequence of key/value pairs in insertion order.                 *)
(***************************************************************************)
\* d[k] = v of a Python dict.
RECURSIVE DictSet(_, _, _)
DictSet(d, k, v) ==
    IF d = << >> THEN << PKv(k, v) >>
    ELSE IF Head(d).s = k THEN << PKv(k, v) >> \o Tail(d)
    ELSE << Head(d) >> \o DictSet(Tail(d), k, v)

RECURSIVE DictUpdate(_, _, _)
DictUpdate(d, ps, i) ==
    IF i > Len(ps) THEN d
    ELSE DictUpdate(DictSet(d, ps[i].s, ps[i].i), ps, i + 1)

\* m[k] = v of a name -> definition map.
MapSet(m, k, v) == (k :> v) @@ m

\* State.__init__: the working directory is always the first include.
NewState(cwd, includes) ==
    [bpm_to_ms |-> Int_(1),
     cwd       |-> cwd,
     includes  |-> << cwd >> \o includes,
     phrases   |-> << >>,
     sounds    |-> << >>,
     voices    |-> << >>]

Raised(st, e) == [state |-> st, error |-> e]

\* Variants of the branches of State.register, each with one check changed.
\* The properties of registration are checked against them as well, to show
\* which check each property rests on.
\*   the sound branch without "name in self.phrases"
RegisterSoundNoPhraseCheck(st, node) ==
    IF Len(node.parameters) = 0 THEN Raised(st, IndexError)
    ELSE LET name == node.parameters[1].s
         IN  IF name \in PHONEMES THEN Raised(st, RegistrationError)
             ELSE Raised([st EXCEPT !.sounds = MapSet(@, name, node.context)],
                         NoError)

\*   the sound branch raising for a name that is already a sound
RegisterSoundOnce(st, node) ==
    IF Len(node.parameters) = 0 THEN Raised(st, IndexError)
    ELSE LET name == node.parameters[1].s
         IN  IF name \in PHONEMES THEN Raised(st, RegistrationError)
             ELSE IF name \in DOMAIN st.phrases THEN Raised(st, RegistrationError)
             ELSE IF name \in DOMAIN st.sounds THEN Raised(st, RegistrationError)
             ELSE Raised([st EXCEPT !.sounds = MapSet(@, name, node.context)],
                         NoError)

\*   the phrase branch raising for a name that is already a phrase
RegisterPhraseOnce(st, node) ==
    IF Len(node.parameters) = 0 THEN Raised(st, IndexError)
    ELSE LET name == node.parameters[1].s
         IN  IF name \in PHONEMES THEN Raised(st, RegistrationError)
             ELSE IF name \in DOMAIN st.sounds THEN Raised(st, RegistrationError)
             ELSE IF name \in DOMAIN st.phrases THEN Raised(st, RegistrationError)
             ELSE Raised([st EXCEPT !.phrases = MapSet(@, name, node.context)],
                         NoError)

\*   the phrase branch without "name in PHONEMES"
RegisterPhraseNoPhonemeCheck(st, node) ==
    IF Len(node.parameters) = 0 THEN Raised(st, IndexError)
    ELSE LET name == node.parameters[1].s
         IN  IF name \in DOMAIN st.sounds THEN Raised(st, RegistrationError)
             ELSE Raised([st EXCEPT !.phrases = MapSet(@, name, node.context)],
                         NoError)

\*   the phrase branch storing the definition before its checks
RegisterPhraseStoreFirst(st, node) ==
    IF Len(node.parameters) = 0 THEN Raised(st, IndexError)
    ELSE LET name   == node.parameters[1].s
             stored == [st EXCEPT !.phrases = MapSet(@, name, node.context)]
         IN  IF name \in PHONEMES THEN Raised(stored, RegistrationError)
             ELSE IF name \in DOMAIN st.sounds
             THEN Raised(stored, RegistrationError)
             ELSE Raised(stored, NoError)

\* The phrase branch of State.register.
RegisterPhrase(st, node) ==
    IF Len(node.parameters) = 0 THEN Raised(st, IndexError)
    ELSE LET name == node.parameters[1].s
         IN  IF name \in PHONEMES THEN Raised(st, RegistrationError)
             ELSE IF name \in DOMAIN st.sounds THEN Raised(st, RegistrationError)
             ELSE Raised([st EXCEPT !.phrases = MapSet(@, name, node.context)],
                         NoError)

\* The sound branch of State.register.
RegisterSound(st, node) ==
    IF Len(node.parameters) = 0 THEN Raised(st, IndexError)
    ELSE LET name == node.parameters[1].s
         IN  IF name \in PHONEMES THEN Raised(st, RegistrationError)
             ELSE IF name \in DOMAIN st.phrases THEN Raised(st, RegistrationError)
             ELSE Raised([st EXCEPT !.sounds = MapSet(@, name, node.context)],
                         NoError)

\* The voice branch of State.register.
RegisterVoice(st, node) ==
    LET name == node.name
    IN  IF name \in VOICE_DEFAULT_NAMES THEN Raised(st, RegistrationError)
        ELSE Raised([st EXCEPT !.voices =
                         MapSet(@, name,
                                DictUpdate(VOICE_DEFAULTS, node.parameters, 1))],
                    NoError)

\* State.register
register(st, node) ==
    IF node.type \notin {"CommandNode", "VoiceNode"}
    THEN Raised(st, RegistrationError)
    ELSE IF node.command = "phrase" THEN RegisterPhrase(st, node)
    ELSE IF node.command = "sound" THEN RegisterSound(st, node)
    ELSE IF node.command = "voice" THEN RegisterVoice(st, node)
    ELSE Raised(st, RegistrationError)

\* A variant of State.set_bpm in which bpm 0 keeps the multiplier of the
\* earlier tempo instead of resetting it.
set_bpm_no_reset(st, bpm) ==
    IF bpm = 0 THEN st
    ELSE [st EXCEPT !.bpm_to_ms = Rat(MS_PER_MINUTE, bpm)]

\* State.set_bpm
set_bpm(st, bpm) ==
    IF bpm = 0 THEN [st EXCEPT !.bpm_to_ms = Int_(1)]
    ELSE [st EXCEPT !.bpm_to_ms = Rat(MS_PER_MINUTE, bpm)]

(***************************************************************************)
(* utils/validation.py                                                     *)
(***************************************************************************)
ValidationError(type_) == "ValidationException:" \o type_

IsValidationError(e) ==
    Len(e) >= 20 /\ SubSeq(e, 1, 20) = "ValidationException:"

Letters ==
    {"a", "b", "c", "d", "e", "f", "g", "h", "i", "j", "k", "l", "m", "n",
     "o", "p", "q", "r", "s", "t", "u", "v", "w", "x", "y", "z",
     "A", "B", "C", "D", "E", "F", "G", "H", "I", "J", "K", "L", "M", "N",
     "O", "P", "Q", "R", "S", "T", "U", "V", "W", "X", "Y", "Z"}

Digits == {"0", "1", "2", "3", "4", "5", "6", "7", "8", "9"}

\* RE_VARIABLE = "^(([a-zA-Z])|([_a-zA-Z][a-zA-Z0-9_]+))$"
MatchesVariable(s) ==
    \/ Len(s) = 1 /\ s \in Letters
    \/ /\ Len(s) >= 2
       /\ SubSeq(s, 1, 1) \in Letters \cup {"_"}
       /\ \A i \in 2..Len(s) : SubSeq(s, i, i) \in Letters \cup Digits \cup {"_"}

\* The number of leading elements of classes, from position i, equal to c.
RECURSIVE RunLength(_, _, _)
RunLength(classes, i, c) ==
    IF i > Len(classes) \/ classes[i] # c THEN 0
    ELSE 1 + RunLength(classes, i + 1, c)

\* RE_SOUND = "^c*v+c*$" over the sequence of phoneme classes.
MatchesSound(classes) ==
    LET c1 == RunLength(classes, 1, "c")
        v  == RunLength(classes, c1 + 1, "v")
        c2 == RunLength(classes, c1 + v + 1, "c")
    IN  v >= 1 /\ c1 + v + c2 = Len(classes)

_validate_context_length(node) ==
    IF Len(node.context) = 0 THEN ValidationError("SyntaxError") ELSE NoError

\* types is a set of node types; (Node) is every node type.
_validate_context_type(node, types) ==
    IF \E i \in 1..Len(node.context) : node.context[i].type \notin types
    THEN ValidationError("CommandContextTypeException")
    ELSE NoError

AnyNode == {"CommandNode", "PhonemeNode", "VoiceNode", "EofNode"}

_validate_parameter_count(node, count) ==
    IF Len(node.parameters) # count
    THEN ValidationError("CommandParameterCountException")
    ELSE NoError

_validate_parameter_types(node, types) ==
    IF \E i \in 1..Len(node.parameters) : node.parameters[i].t # types[i]
    THEN ValidationError("CommandParameterTypeException")
    ELSE NoError

_validate_parameter_keywords(node, parameter, keywords) ==
    IF parameter \notin keywords
    THEN ValidationError("CommandParameterKeywordException")
    ELSE NoError

_validate_parameter_is_variable(node, parameter) ==
    IF ~MatchesVariable(parameter)
    THEN ValidationError("CommandParameterVariableException")
    ELSE NoError

_validate_parameter_value_range(node, parameter, min, max) ==
    IF parameter < min \/ parameter > max
    THEN ValidationError("CommandParameterValueException")
    ELSE NoError

\* Parameter count, then the positional parameter types.
CountAndTypes(node, types) ==
    Then(_validate_parameter_count(node, Len(types)),
         _validate_parameter_types(node, types))

\* Count 1, type str, and the one parameter a keyword of the set.
OneKeyword(node, keywords) ==
    Then(CountAndTypes(node, << "str" >>),
         _validate_parameter_keywords(node, node.parameters[1].s, keywords))

_autovalidate(node) == NoError

_validate_comma_command(node) == CountAndTypes(node, << "int" >>)

_validate_define_voice_command(node) ==
    Then(CountAndTypes(node, << "str", "int" >>),
    Then(_validate_parameter_keywords(node, node.parameters[1].s, VOICE_PARAMETERS),
         _validate_parameter_value_range(node, node.parameters[2].i,
             VOICE_MINMAX[node.parameters[1].s][1],
             VOICE_MINMAX[node.parameters[1].s][2])))

_validate_error_command(node) == OneKeyword(node, {"ignore", "speak", "tone"})

_validate_processing_mode_command(node) ==
    Then(CountAndTypes(node, << "str", "str" >>),
    Then(_validate_parameter_keywords(node, node.parameters[1].s,
             {"math", "europe", "spell", "name", "citation", "latin", "table"}),
         _validate_parameter_keywords(node, node.parameters[2].s,
             {"on", "off", "set"})))

_validate_name_command(node) ==
    Then(CountAndTypes(node, << "str" >>),
         _validate_parameter_is_variable(node, node.parameters[1].s))

_validate_period_pause_command(node) == CountAndTypes(node, << "int" >>)

_validate_phoneme_command(node) ==
    Then(CountAndTypes(node, << "str", "str" >>),
    Then(_validate_parameter_keywords(node, node.parameters[1].s, {"arpabet"}),
         _validate_parameter_keywords(node, node.parameters[2].s, {"on", "off"})))

_validate_pitch_command(node) == CountAndTypes(node, << "int" >>)

_validate_play_command(node) == CountAndTypes(node, << "str" >>)

_validate_pronounce_command(node) ==
    OneKeyword(node, {"alternate", "primary", "name", "noun", "adjective", "verb"})

_validate_punct_command(node) == OneKeyword(node, {"none", "some", "all", "pass"})

_validate_rate_command(node) ==
    Then(CountAndTypes(node, << "int" >>),
         _validate_parameter_value_range(node, node.parameters[1].i, 75, 600))

_validate_say_command(node) ==
    OneKeyword(node, {"clause", "word", "letter", "filtered", "line"})

_validate_skip_command(node) ==
    OneKeyword(node, {"punct", "rule", "all", "off", "cpg", "none"})

_validate_tone_command(node) == CountAndTypes(node, << "int", "int" >>)

_validate_volume_command(node) ==
    IF Len(node.parameters) = 2
    THEN Then(_validate_parameter_types(node, << "str", "int" >>),
         Then(_validate_parameter_keywords(node, node.parameters[1].s,
                  {"up", "lup", "rup", "down", "ldown", "rdown", "set", "lset",
                   "rset"}),
              _validate_parameter_value_range(node, node.parameters[2].i, 0, 100)))
    ELSE IF Len(node.parameters) = 3
    THEN Then(_validate_parameter_types(node, << "str", "int", "int" >>),
         Then(_validate_parameter_keywords(node, node.parameters[1].s, {"sset"}),
         Then(_validate_parameter_value_range(node, node.parameters[2].i, 0, 100),
              _validate_parameter_value_range(node, node.parameters[3].i, 0, 100))))
    ELSE _validate_parameter_count(node, 2)

_validate_bpm_command(node) ==
    Then(CountAndTypes(node, << "int" >>),
         _validate_parameter_value_range(node, node.parameters[1].i, 0, MS_PER_MINUTE))

_validate_import_command(node) == CountAndTypes(node, << "str" >>)

_validate_loop_command(node) ==
    Then(CountAndTypes(node, << "int" >>),
         _validate_context_type(node, AnyNode))

_validate_phrase_command(node) ==
    Then(CountAndTypes(node, << "str" >>),
    Then(_validate_parameter_is_variable(node, node.parameters[1].s),
    Then(_validate_context_length(node),
         _validate_context_type(node, AnyNode))))

\* The phoneme class of a sound's context node: "c", "v" or "" (neither).
PhonemeClass(n) ==
    IF n.phoneme \in PHONEMES_CONSONANTS THEN "c"
    ELSE IF n.phoneme \in PHONEMES_VOWELS THEN "v"
    ELSE ""

_validate_sound_command(node) ==
    Then(CountAndTypes(node, << "str" >>),
    Then(_validate_parameter_is_variable(node, node.parameters[1].s),
    Then(_validate_context_length(node),
    Then(_validate_context_type(node, {"PhonemeNode"}),
         LET classes == [i \in 1..Len(node.context) |->
                            PhonemeClass(node.context[i])]
         IN  IF \E i \in 1..Len(classes) : classes[i] = ""
             THEN ValidationError("SoundPhonemeTypeException")
             ELSE IF ~MatchesSound(classes)
             THEN ValidationError("SyntaxError")
             ELSE NoError))))

\* The loop of _validate_voice_command over the parameter map, from key i.
RECURSIVE ValidateVoiceParameters(_, _)
ValidateVoiceParameters(node, i) ==
    IF i > Len(node.parameters) THEN NoError
    ELSE LET p == node.parameters[i]
         IN  IF p.s \notin VOICE_PARAMETERS
             THEN ValidationError("VoiceParameterNameException")
             ELSE IF p.i < VOICE_MINMAX[p.s][1] \/ p.i > VOICE_MINMAX[p.s][2]
             THEN ValidationError("VoiceParameterValueException")
             ELSE ValidateVoiceParameters(node, i + 1)

_validate_voice_command(node) ==
    Then(_validate_parameter_is_variable(node, node.name),
         ValidateVoiceParameters(node, 1))

\* validate: the dispatch over _VALIDATION_MAP; "" when the node is valid.
validate(node) ==
    LET c == node.command
    IN  IF c \in {"comma", "cp"} THEN _validate_comma_command(node)
        ELSE IF c = "dv" THEN _validate_define_voice_command(node)
        ELSE IF c = "error" THEN _validate_error_command(node)
        ELSE IF c = "mode" THEN _validate_processing_mode_command(node)
        ELSE IF c = "name" THEN _validate_name_command(node)
        ELSE IF c \in {"nb", "nd", "nf", "nh", "nk", "np", "nr", "nu", "nw"}
             THEN _autovalidate(node)
        ELSE IF c \in {"period", "pp"} THEN _validate_period_pause_command(node)
        ELSE IF c = "phoneme" THEN _validate_phoneme_command(node)
        ELSE IF c = "pitch" THEN _validate_pitch_command(node)
        ELSE IF c = "play" THEN _validate_play_command(node)
        ELSE IF c = "pronounce" THEN _validate_pronounce_command(node)
        ELSE IF c = "punct" THEN _validate_punct_command(node)
        ELSE IF c = "rate" THEN _validate_rate_command(node)
        ELSE IF c = "say" THEN _validate_say_command(node)
        ELSE IF c = "skip" THEN _validate_skip_command(node)
        ELSE IF c = "tone" THEN _validate_tone_command(node)
        ELSE IF c = "volume" THEN _validate_volume_command(node)
        ELSE IF c = "bpm" THEN _validate_bpm_command(node)
        ELSE IF c = "import" THEN _validate_import_command(node)
        ELSE IF c = "loop" THEN _validate_loop_command(node)
        ELSE IF c = "phrase" THEN _validate_phrase_command(node)
        ELSE IF c = "sound" THEN _validate_sound_command(node)
        ELSE IF c = "voice" THEN _validate_voice_command(node)
        ELSE ValidationError("NameError")

(***************************************************************************)
(* The file system the Processor resolves import and play paths against.   *)
(* A path is the text "<directory>/<file name>".  A source file is held as *)
(* the node list the Lexer and the Parser return for it (its EofNode       *)
(* included); FILES maps the paths that exist to their contents.           *)
(***************************************************************************)
Join(dir, filename) == dir \o "/" \o filename

\* os.path.isfile
IsFile(files, path) == path \in DOMAIN files

\* The search loop of __process_import_command and __process_play_command
\* over the include directories from index i: every directory is tried, and
\* a later match replaces an earlier one.
RECURSIVE SearchIncludes(_, _, _, _, _)
SearchIncludes(files, includes, filename, i, filepath) ==
    IF i > Len(includes) THEN filepath
    ELSE LET checkfile == Join(includes[i], filename)
         IN  SearchIncludes(files, includes, filename, i + 1,
                            IF IsFile(files, checkfile) THEN checkfile
                            ELSE filepath)

\* The path resolution of import and play; "" is None (not found).  A
\* filename that is itself the path of a file (the absolute path an earlier
\* resolution returned) is found by os.path.isfile as it is; any other is
\* relative to the working directory.
ResolvePath(files, st, filename) ==
    IF IsFile(files, filename) THEN filename
    ELSE IF IsFile(files, Join(st.cwd, filename)) THEN Join(st.cwd, filename)
    ELSE SearchIncludes(files, st.includes, filename, 1, "")

(***************************************************************************)
(* components/processor.py.  A handler's result is the state and the       *)
(* writer's text it leaves, the buffer it returns and the error it raises  *)
(* (NoError when it returns).  depth counts the nested calls, which        *)
(* Python bounds by its recursion limit.                                   *)
(***************************************************************************)
Result(st, w, buffer, e) ==
    [state |-> st, writer |-> w, buffer |-> buffer, error |-> e]

\* The element of a one-element set.  A handler that uses the result r of
\* a call several times is written The({ f(r) : r \in { call } }), which
\* evaluates the call once.
The(S) == CHOOSE x \in S : TRUE

\* str * int
RECURSIVE Repeat(_, _)
Repeat(text, n) == IF n <= 0 THEN "" ELSE text \o Repeat(text, n - 1)

\* The number of trailing nodes of sound, up to position i, that are
\* consonants.
RECURSIVE TrailingConsonants(_, _)
TrailingConsonants(sound, i) ==
    IF i < 1 \/ sound[i].phoneme \notin PHONEMES_CONSONANTS THEN 0
    ELSE 1 + TrailingConsonants(sound, i - 1)

RECURSIVE LeadingConsonants(_, _)
LeadingConsonants(sound, i) ==
    IF i > Len(sound) \/ sound[i].phoneme \notin PHONEMES_CONSONANTS THEN 0
    ELSE 1 + LeadingConsonants(sound, i + 1)

\* f"[{phoneme}<15>]" of the nodes sound[from..to].
RECURSIVE ConsonantText(_, _, _)
ConsonantText(sound, from, to) ==
    IF from > to THEN ""
    ELSE "[" \o sound[from].phoneme \o "<" \o ToString(CONSONANT_LENGTH) \o ">]"
         \o ConsonantText(sound, from + 1, to)

\* The per-vowel length of a sound invoked with the given length.
VowelLength(length, ccount, vcount) ==
    (length - CONSONANT_LENGTH * ccount) \div vcount

\* The vowel loop of __process_sound: the nodes sound[from..to] as rewritten.
VowelNode(phoneme, vlength, pitch) ==
    [phoneme EXCEPT !.length = Int_(vlength), !.pitch = pitch]

RECURSIVE VowelText(_, _, _, _, _)
VowelText(sound, from, to, vlength, pitch) ==
    IF from > to THEN ""
    ELSE ReprPhoneme(VowelNode(sound[from], vlength, pitch))
         \o VowelText(sound, from + 1, to, vlength, pitch)

\* Processor.__process_sound.  vowel_start and vowel_end are the code's
\* 0-based indices; the vowel run is sound[vowel_start + 1 .. vowel_end].
process_sound(st, w, node) ==
    LET sound       == st.sounds[node.phoneme]
        vowel_start == LeadingConsonants(sound, 1)
        vowel_end   == Len(sound) - TrailingConsonants(sound, Len(sound))
        head        == ConsonantText(sound, 1, vowel_start)
        tail        == ConsonantText(sound, vowel_end + 1, Len(sound))
        vcount      == vowel_end - vowel_start
        ccount      == Len(sound) - vcount
        vlength     == VowelLength(node.length.num, ccount, vcount)
        rewritten   == [i \in 1..Len(sound) |->
                           IF vowel_start < i /\ i <= vowel_end
                           THEN VowelNode(sound[i], vlength, node.pitch)
                           ELSE sound[i]]
    IN  IF vcount = 0 THEN Result(st, w, "", ZeroDivisionError)
        ELSE IF node.length.num < CONSONANT_LENGTH * ccount
        THEN Result(st, w, "", RuntimeError)
        ELSE Result([st EXCEPT !.sounds[node.phoneme] = rewritten], w,
                    head \o VowelText(sound, vowel_start + 1, vowel_end,
                                      vlength, node.pitch) \o tail,
                    NoError)

\* Processor.__bypass
bypass(st, w, node) == Result(st, w, Repr(node), NoError)

\* Processor.__ignore
ignore(st, w, node) == Result(st, w, "", NoError)

\* Processor.__register
process_register(st, w, node) ==
    LET r == register(st, node) IN Result(r.state, w, "", r.error)

\* Processor.__process_bpm_command
process_bpm_command(st, w, node) ==
    IF Len(node.parameters) = 0 THEN Result(st, w, "", IndexError)
    ELSE Result(set_bpm(st, node.parameters[1].i), w, "", NoError)

\* "".join([f"[:dv {p} {parameters[p]}]" for p in parameters])
RECURSIVE DefineVoiceText(_, _)
DefineVoiceText(parameters, i) ==
    IF i > Len(parameters) THEN ""
    ELSE "[:dv " \o parameters[i].s \o " " \o ToString(parameters[i].i) \o "]"
         \o DefineVoiceText(parameters, i + 1)

\* A variant of __process_name_command that passes a name that is not
\* registered through unchanged instead of raising.
process_name_command_pass_through(st, w, node) ==
    IF Len(node.parameters) = 0 THEN Result(st, w, "", IndexError)
    ELSE LET name == node.parameters[1].s
         IN  IF name \in VOICE_DEFAULT_NAMES THEN Result(st, w, Repr(node), NoError)
             ELSE IF name \notin DOMAIN st.voices
             THEN Result(st, w, Repr(node), NoError)
             ELSE Result(st, w, DefineVoiceText(st.voices[name], 1), NoError)

\* Processor.__process_name_command
process_name_command(st, w, node) ==
    IF Len(node.parameters) = 0 THEN Result(st, w, "", IndexError)
    ELSE LET name == node.parameters[1].s
         IN  IF name \in VOICE_DEFAULT_NAMES THEN Result(st, w, Repr(node), NoError)
             ELSE IF name \notin DOMAIN st.voices THEN Result(st, w, "", NameError)
             ELSE Result(st, w, DefineVoiceText(st.voices[name], 1), NoError)

\* Processor.__process_play_command.  The command rewrites the parameter of
\* its node to the path found; PlaysResolved is a context whose nodes have
\* been processed without an error: its play commands, and those of its
\* loop contexts, as rewritten.
RECURSIVE PlaysResolved(_, _, _)
PlaysResolved(files, context, st) ==
    [i \in 1..Len(context) |->
        LET n == context[i]
        IN  IF n.type # "CommandNode" THEN n
            ELSE IF n.command = "play" /\ Len(n.parameters) > 0
            THEN [n EXCEPT !.parameters[1] =
                               PStr(ResolvePath(files, st, n.parameters[1].s))]
            ELSE IF n.command = "loop"
            THEN [n EXCEPT !.context = PlaysResolved(files, n.context, st)]
            ELSE n]

process_play_command(files, st, w, node) ==
    IF Len(node.parameters) = 0 THEN Result(st, w, "", IndexError)
    ELSE LET filepath == ResolvePath(files, st, node.parameters[1].s)
         IN  IF filepath = "" THEN Result(st, w, "", FileNotFoundError)
             ELSE Result(st, w,
                         Repr([node EXCEPT !.parameters[1] = PStr(filepath)]),
                         NoError)

(***************************************************************************)
(* The test files the repository's tests import and play                   *)
(* (tests/test_files), as the tests' expected outputs and states give      *)
(* them, in the include directory the tests pass to State.                 *)
(***************************************************************************)
CWD == "."

DIR_LIB == "lib"

DIR_TEST_FILES == "tests/test_files"

\* [:phrase name] {aa<500> [:bpm 60] aa<0.5>}
ImportPhraseNode ==
    CommandNode("phrase", << PStr("name") >>,
                << PhonemeNode("aa", Int_(500), 0),
                   CommandNode("bpm", << PInt(60) >>, << >>),
                   PhonemeNode("aa", Rat(1, 2), 0) >>)

\* [:sound name] {b aa b}
ImportSoundNode ==
    CommandNode("sound", << PStr("name") >>,
                << PhonemeNode("b", Int_(0), 0),
                   PhonemeNode("aa", Int_(0), 0),
                   PhonemeNode("b", Int_(0), 0) >>)

\* Files that import: self.opendec is `_<1> [:import self.opendec]`,
\* nested.opendec is `[:import import_command.opendec] _<1>`.
RecursiveFiles ==
    (Join(DIR_LIB, "self.opendec") :>
        << PhonemeNode("_", Int_(1), 0),
           CommandNode("import", << PStr("self.opendec") >>, << >>), EofNode >>)
    @@ (Join(DIR_LIB, "nested.opendec") :>
        << CommandNode("import", << PStr("import_command.opendec") >>, << >>),
           PhonemeNode("_", Int_(1), 0), EofNode >>)

\* Library files that rely on the state they share with their importer:
\* tempo.opendec is `[:bpm 120]`, invoke.opendec is `name<100>`.
LibraryFiles ==
    (Join(DIR_LIB, "tempo.opendec") :>
        << CommandNode("bpm", << PInt(120) >>, << >>), EofNode >>)
    @@ (Join(DIR_LIB, "invoke.opendec") :>
        << PhonemeNode("name", Int_(100), 0), EofNode >>)

\* Files with a node that raises: failing.opendec is
\* `_<1> [:bpm 120] missing _<2> [:bpm 60]`, outer.opendec is
\* `aa<1> [:import failing.opendec] aa<2> [:bpm 30]`.
FailingFiles ==
    (Join(DIR_LIB, "failing.opendec") :>
        << PhonemeNode("_", Int_(1), 0),
           CommandNode("bpm", << PInt(120) >>, << >>),
           PhonemeNode("missing", Int_(0), 0),
           PhonemeNode("_", Int_(2), 0),
           CommandNode("bpm", << PInt(60) >>, << >>), EofNode >>)
    @@ (Join(DIR_LIB, "outer.opendec") :>
        << PhonemeNode("aa", Int_(1), 0),
           CommandNode("import", << PStr("failing.opendec") >>, << >>),
           PhonemeNode("aa", Int_(2), 0),
           CommandNode("bpm", << PInt(30) >>, << >>), EofNode >>)

\* Files for the path search: shared.opendec and shared.wav are in both
\* include directories, with different contents; local.opendec is in the
\* working directory and in an include directory.
SharedFiles ==
    (Join(DIR_LIB, "shared.opendec") :>
        << CommandNode("comma", << PInt(1) >>, << >>), EofNode >>)
    @@ (Join(DIR_TEST_FILES, "shared.opendec") :>
        << CommandNode("comma", << PInt(2) >>, << >>), EofNode >>)
    @@ (Join(DIR_LIB, "shared.wav") :> << >>)
    @@ (Join(DIR_TEST_FILES, "shared.wav") :> << >>)
    @@ (Join(CWD, "local.opendec") :>
        << CommandNode("comma", << PInt(3) >>, << >>), EofNode >>)
    @@ (Join(DIR_LIB, "local.opendec") :>
        << CommandNode("comma", << PInt(4) >>, << >>), EofNode >>)
    @@ LibraryFiles
    @@ RecursiveFiles
    @@ FailingFiles

FILES ==
    (Join(DIR_TEST_FILES, "import_command.opendec") :>
        << CommandNode("comma", << PInt(50) >>, << >>), EofNode >>)
    @@ (Join(DIR_TEST_FILES, "import_phoneme.opendec") :>
        << PhonemeNode("_", Int_(500), 0), PhonemeNode("aa", Int_(500), 10),
           PhonemeNode("b", Int_(15), 0), EofNode >>)
    @@ (Join(DIR_TEST_FILES, "import_phrase.opendec") :>
        << ImportPhraseNode, EofNode >>)
    @@ (Join(DIR_TEST_FILES, "import_sound.opendec") :>
        << ImportSoundNode, EofNode >>)
    @@ (Join(DIR_TEST_FILES, "import_voice.opendec") :>
        << VoiceNode("name", << PKv("sx", 0) >>), EofNode >>)
    @@ (Join(DIR_TEST_FILES, "blah.wav") :> << >>)
    @@ SharedFiles

\* The nesting of handler calls the model follows; a deeper call raises
\* Python's RecursionError.
MaxDepth == 3

(***************************************************************************)
(* The tree walk: the handlers that call one another.                      *)
(***************************************************************************)
RECURSIVE process_command(_, _, _, _), process_context(_, _, _, _, _, _),
          process_phoneme(_, _, _, _), process_nodes(_, _, _, _, _),
          process_node(_, _, _, _)

\* A variant of __process_loop_command that processes the context once
\* per repeat, and so not at all for a count of 0.
RECURSIVE RepeatContext(_, _, _, _, _, _)
RepeatContext(node, k, build, st, w, depth) ==
    IF k <= 0 THEN Result(st, w, build, NoError)
    ELSE The({ IF r.error # NoError THEN r
               ELSE RepeatContext(node, k - 1, build \o r.buffer, r.state,
                                  r.writer, depth) :
               r \in { process_context(node.context, 1, "", st, w, depth + 1) } })

process_loop_command_per_repeat(st, w, node, depth) ==
    IF Len(node.parameters) = 0 THEN Result(st, w, "", IndexError)
    ELSE RepeatContext(node, node.parameters[1].i, "", st, w, depth)

\* Processor.__process_loop_command
process_loop_command(st, w, node, depth) ==
    IF Len(node.parameters) = 0 THEN Result(st, w, "", IndexError)
    ELSE The({ IF r.error # NoError THEN r
                ELSE Result(r.state, r.writer,
                            Repeat(r.buffer, node.parameters[1].i), NoError) :
                r \in { process_context(node.context, 1, "", st, w, depth + 1) } })

\* A variant of __process_import_command whose nested Processor works on a
\* copy of the state: what the file registers is lost when it returns.
process_import_command_on_copy(st, w, node, depth) ==
    IF Len(node.parameters) = 0 THEN Result(st, w, "", IndexError)
    ELSE LET filepath == ResolvePath(FILES, st, node.parameters[1].s)
         IN  IF filepath = "" THEN Result(st, w, "", FileNotFoundError)
             ELSE IF depth >= MaxDepth THEN Result(st, w, "", RecursionError)
             ELSE The({ Result(st, r.writer, "", r.error) :
                        r \in { process_nodes(FILES[filepath], 1, st, w,
                                              depth + 1) } })

\* A variant of __process_import_command whose nested Processor is given a
\* new State: the file sees none of its importer's definitions and tempo,
\* and the importer none of the file's.
process_import_command_new_state(st, w, node, depth) ==
    IF Len(node.parameters) = 0 THEN Result(st, w, "", IndexError)
    ELSE LET filepath == ResolvePath(FILES, st, node.parameters[1].s)
         IN  IF filepath = "" THEN Result(st, w, "", FileNotFoundError)
             ELSE IF depth >= MaxDepth THEN Result(st, w, "", RecursionError)
             ELSE The({ Result(st, r.writer, "", r.error) :
                        r \in { process_nodes(FILES[filepath], 1,
                                              NewState(st.cwd, Tail(st.includes)),
                                              w, depth + 1) } })

\* Processor.__process_import_command: the file is lexed, parsed and
\* processed by a new Processor that shares this one's state and writer.
process_import_command(st, w, node, depth) ==
    IF Len(node.parameters) = 0 THEN Result(st, w, "", IndexError)
    ELSE LET filepath == ResolvePath(FILES, st, node.parameters[1].s)
         IN  IF filepath = "" THEN Result(st, w, "", FileNotFoundError)
             ELSE IF depth >= MaxDepth THEN Result(st, w, "", RecursionError)
             ELSE The({ Result(r.state, r.writer, "", r.error) :
                        r \in { process_nodes(FILES[filepath], 1, st, w,
                                              depth + 1) } })

\* Processor.__process_command: the dispatch on the command name.
process_command(st, w, node, depth) ==
    LET c == node.command
    IN  IF c \in {"mode", "phoneme", "pitch", "pronounce"} THEN ignore(st, w, node)
        ELSE IF c = "name" THEN process_name_command(st, w, node)
        ELSE IF c = "play" THEN process_play_command(FILES, st, w, node)
        ELSE IF c = "bpm" THEN process_bpm_command(st, w, node)
        ELSE IF c = "import" THEN process_import_command(st, w, node, depth)
        ELSE IF c = "loop" THEN process_loop_command(st, w, node, depth)
        ELSE IF c \in {"phrase", "sound", "voice"} THEN process_register(st, w, node)
        ELSE bypass(st, w, node)

\* Processor.__process_context: the loop over context from node i, with
\* the text built so far.  A phoneme's length is scaled for the call of
\* __process_phoneme and restored after it.
process_context(context, i, build, st, w, depth) ==
    IF i > Len(context) THEN Result(st, w, build, NoError)
    ELSE IF depth > MaxDepth THEN Result(st, w, "", RecursionError)
    ELSE LET n == context[i]
         IN  The({ IF r.error # NoError THEN Result(r.state, r.writer, "", r.error)
                   ELSE process_context(context, i + 1, build \o r.buffer,
                                        r.state, r.writer, depth) :
                   r \in { IF n.type \in {"CommandNode", "VoiceNode"}
                           THEN process_command(st, w, n, depth)
                           ELSE process_phoneme(st, w,
                                    [n EXCEPT !.length =
                                        Int_(IntOfProduct(n.length, st.bpm_to_ms))],
                                    depth) } })

\* The lengths of a context's phonemes as __process_context rewrites them
\* for the call of __process_phoneme.
ScaledLengths(context, st) ==
    [i \in 1..Len(context) |->
        IF context[i].type # "PhonemeNode" THEN context[i]
        ELSE [context[i] EXCEPT !.length =
                  Int_(IntOfProduct(context[i].length, st.bpm_to_ms))]]

\* A variant of __process_phoneme whose replay of a phrase leaves out
\* `n.length = original_length`: the stored nodes keep the scaled lengths.
process_phoneme_without_restore(st, w, node, depth) ==
    IF node.phoneme \in PHONEMES THEN Result(st, w, Repr(node), NoError)
    ELSE IF node.phoneme \in DOMAIN st.phrases
    THEN The({ IF \/ r.error # NoError
                  \/ node.phoneme \notin DOMAIN r.state.phrases
                  \/ r.state.phrases[node.phoneme] # st.phrases[node.phoneme]
               THEN r
               ELSE [r EXCEPT !.state.phrases[node.phoneme] =
                                  ScaledLengths(PlaysResolved(FILES, @, st), st)] :
               r \in { process_context(st.phrases[node.phoneme], 1, "", st, w,
                                       depth + 1) } })
    ELSE IF node.phoneme \in DOMAIN st.sounds THEN process_sound(st, w, node)
    ELSE Result(st, w, "", NameError)

\* A variant of __process_phoneme that emits a name it does not recognize
\* as it emits a built-in phoneme, instead of raising.
process_phoneme_pass_unknown(st, w, node, depth) ==
    IF node.phoneme \in PHONEMES THEN Result(st, w, Repr(node), NoError)
    ELSE IF node.phoneme \in DOMAIN st.phrases
    THEN process_context(st.phrases[node.phoneme], 1, "", st, w, depth + 1)
    ELSE IF node.phoneme \in DOMAIN st.sounds THEN process_sound(st, w, node)
    ELSE Result(st, w, Repr(node), NoError)

\* Processor.__process_phoneme.  The list a phrase is replayed from is a
\* copy of the stored list with the same nodes in it, so the stored
\* definition has the play commands of the replay rewritten (unless the
\* replay has registered another definition under the name).
process_phoneme(st, w, node, depth) ==
    IF node.phoneme \in PHONEMES THEN Result(st, w, Repr(node), NoError)
    ELSE IF node.phoneme \in DOMAIN st.phrases
    THEN The({ IF \/ r.error # NoError
                  \/ node.phoneme \notin DOMAIN r.state.phrases
                  \/ r.state.phrases[node.phoneme] # st.phrases[node.phoneme]
               THEN r
               ELSE [r EXCEPT !.state.phrases[node.phoneme] =
                                  PlaysResolved(FILES, @, st)] :
               r \in { process_context(st.phrases[node.phoneme], 1, "", st, w,
                                       depth + 1) } })
    ELSE IF node.phoneme \in DOMAIN st.sounds THEN process_sound(st, w, node)
    ELSE Result(st, w, "", NameError)

\* One iteration of the loop of Processor.process on node: validate,
\* dispatch, write.  The result also carries the node, whose length the
\* iteration rewrites.
process_node(st, w, node, depth) ==
    IF node.type \in {"CommandNode", "VoiceNode"}
    THEN LET e == validate(node)
         IN  IF e # NoError THEN Result(st, w, "", e) @@ [node |-> node]
             ELSE The({ IF r.error # NoError THEN r @@ [node |-> node]
                        ELSE Result(r.state, r.writer \o r.buffer, r.buffer,
                                    NoError)
                             @@ [node |-> PlaysResolved(FILES, << node >>, st)[1]] :
                        r \in { process_command(st, w, node, depth) } })
    ELSE IF node.type = "PhonemeNode"
    THEN LET scaled == [node EXCEPT !.length =
                           Int_(IntOfProduct(node.length, st.bpm_to_ms))]
         IN  The({ IF r.error # NoError THEN r @@ [node |-> scaled]
                   ELSE Result(r.state, r.writer \o r.buffer, r.buffer, NoError)
                        @@ [node |-> scaled] :
                   r \in { process_phoneme(st, w, scaled, depth) } })
    ELSE Result(st, w, "", TypeError) @@ [node |-> node]

\* A variant of the nested process that goes on to the next node after a
\* node has raised, and raises the first error when it reaches the EofNode.
process_nodes_past_errors(nodes, i, st, w, depth) ==
    IF nodes[i].type = "EofNode" THEN Result(st, w, "", NoError)
    ELSE The({ The({ Result(q.state, q.writer, "", Then(r.error, q.error)) :
                     q \in { process_nodes(nodes, i + 1, r.state, r.writer,
                                           depth) } }) :
               r \in { process_node(st, w, nodes[i], depth) } })

\* Processor.process of a nested Processor: from node i to the EofNode.
process_nodes(nodes, i, st, w, depth) ==
    IF nodes[i].type = "EofNode" THEN Result(st, w, "", NoError)
    ELSE The({ IF r.error # NoError THEN Result(r.state, r.writer, "", r.error)
                ELSE process_nodes(nodes, i + 1, r.state, r.writer, depth) :
                r \in { process_node(st, w, nodes[i], depth) } })

(***************************************************************************)
(* The top-level Processor as a state machine: one step per node of the    *)
(* top-level node list.                                                    *)
(*   nodes   Processor.nodes, the parser's node list, its EofNode last     *)
(*   index   Processor.index (1-based here)                                *)
(*   state   the Compilation State every nested Processor shares           *)
(*   writer  the text written to the output so far                         *)
(*   error   the exception that ended process, NoError while none has      *)
(*   done    process has returned                                          *)
(* and the Lexer that reads a source text, before the Parser and the      *)
(* Processor:                                                              *)
(*   reader  Lexer.reader: the source, the current character, the position *)
(*   tokens  the list get_tokens builds and returns                        *)
(***************************************************************************)
VARIABLES nodes, index, state, writer, error, done, reader, tokens

vars == << nodes, index, state, writer, error, done, reader, tokens >>

\* Every sequence of at most n elements of S.
RECURSIVE SeqsUpTo(_, _)
SeqsUpTo(S, n) ==
    IF n = 0 THEN { << >> }
    ELSE LET shorter == SeqsUpTo(S, n - 1)
         IN  shorter \cup { Append(q, x) : q \in shorter, x \in S }

\* The node lists the Parser returns for the programs of at most n nodes
\* (the EofNode not counted) over a set of nodes.
Programs(universe, n) == { Append(q, EofNode) : q \in SeqsUpTo(universe, n) }

\* Processor.__init__ on a program of the given set, with a new State whose
\* include directories are those of compile.py and of the tests.
InitWith(programs) ==
    /\ nodes \in programs
    /\ index = 1
    /\ state = NewState(CWD, << DIR_LIB, DIR_TEST_FILES >>)
    /\ writer = ""
    /\ error = NoError
    /\ done = FALSE
    /\ reader = [source |-> "", char |-> "",
                 pos |-> [index |-> 0, line |-> 0, column |-> 0]]
    /\ tokens = << >>

\* Processor.node
current == nodes[index]

Running == error = NoError /\ ~done

\* A variant of the iteration that leaves out self.advance().
IterateWithoutAdvance(r) ==
    /\ state' = r.state
    /\ writer' = r.writer
    /\ error' = r.error
    /\ nodes' = [nodes EXCEPT ![index] = r.node]
    /\ index' = index
    /\ done' = FALSE
    /\ UNCHANGED << reader, tokens >>

\* The effect of one iteration of process on the machine's variables.
Iterate(r) ==
    /\ state' = r.state
    /\ writer' = r.writer
    /\ error' = r.error
    /\ nodes' = [nodes EXCEPT ![index] = r.node]
    /\ index' = IF r.error = NoError THEN index + 1 ELSE index
    /\ done' = FALSE
    /\ UNCHANGED << reader, tokens >>

\* An iteration of process on a Command or Voice node.
ProcessCommandNode ==
    /\ Running
    /\ current.type \in {"CommandNode", "VoiceNode"}
    /\ \E r \in { process_node(state, writer, current, 0) } : Iterate(r)

\* An iteration of process on a Phoneme node.
ProcessPhonemeNode ==
    /\ Running
    /\ current.type = "PhonemeNode"
    /\ \E r \in { process_node(state, writer, current, 0) } : Iterate(r)

\* process reaches the EofNode and returns.
Finish ==
    /\ Running
    /\ current.type = "EofNode"
    /\ done' = TRUE
    /\ UNCHANGED << nodes, index, state, writer, error, reader, tokens >>

Next == ProcessCommandNode \/ ProcessPhonemeNode \/ Finish

(***************************************************************************)
(* The programs checked.  Each specification runs the same machine on the  *)
(* programs over its own set of top-level nodes.                           *)
(***************************************************************************)
Import(filename) == CommandNode("import", << PStr(filename) >>, << >>)

Bpm(bpm) == CommandNode("bpm", << PInt(bpm) >>, << >>)

Loop(repeat, context) == CommandNode("loop", << PInt(repeat) >>, context)

\* The most repeats of a loop command.
MaxRepeat == 2

\* {aa<1,10> [:cp 50]}, {_<1> [:bpm 120]} and
\* {_<1> [:import import_command.opendec]}
LoopContexts ==
    { << PhonemeNode("aa", Int_(1), 10),
         CommandNode("cp", << PInt(50) >>, << >>) >>,
      << PhonemeNode("_", Int_(1), 0), Bpm(120) >>,
      << PhonemeNode("_", Int_(1), 0), Import("import_command.opendec") >> }

LoopNodes ==
    { Loop(n, x) : n \in 0..MaxRepeat, x \in LoopContexts }
    \cup { Bpm(60), PhonemeNode("_", Int_(1), 0) }

\* The most nodes of a program of loops, its EofNode not counted.
MaxLoopNodes == 2

InitLoop == InitWith(Programs(LoopNodes, MaxLoopNodes))

SpecLoop == InitLoop /\ [][Next]_vars

\* The step about to be taken processes a top-level loop command.
AtLoop ==
    /\ Running
    /\ current.type = "CommandNode"
    /\ current.command = "loop"

\* All the text one pass over the context x adds to the output under the
\* state st: what its nodes write themselves, then what the pass returns.
SinglePassText(x, st) ==
    LET r == process_context(x, 1, "", st, "", 1)
    IN  r.writer \o r.buffer

\* C1: a loop command with count N and context x that completes adds to the
\* output exactly N copies of the text of one single pass over x, taken
\* under the state in effect when the loop is reached.
C1_LoopEmitsNCopies ==
    [][(AtLoop /\ error' = NoError)
          => writer' = writer \o Repeat(SinglePassText(current.context, state),
                                        current.parameters[1].i)]_vars

\* C2: a loop command with count 0 that completes leaves the output as it
\* was before the loop, whatever commands its context holds.
C2_LoopZeroEmitsNothing ==
    [][(AtLoop /\ current.parameters[1].i = 0 /\ error' = NoError)
          => writer' = writer]_vars

(***************************************************************************)
(* Registration: programs of imports of the test files that register       *)
(* `name`, of definitions written in the program itself and of an          *)
(* invocation of `name`; and the programs of test_import_phrase and        *)
(* test_import_sound, which import one file 1 to 5 times.                  *)
(***************************************************************************)
Phrase(name, context) == CommandNode("phrase", << PStr(name) >>, context)

Sound(name, context) == CommandNode("sound", << PStr(name) >>, context)

ImportPhrase == Import("import_phrase.opendec")

ImportSound == Import("import_sound.opendec")

\* [:import import_phrase.opendec], [:import import_sound.opendec],
\* [:phrase name] {aa}, [:sound name] {aa}, [:phrase aa] {aa},
\* [:voice aa] {sx 0}, [:voice Paul] {} and name<30>
RegisterNodes ==
    { ImportPhrase, ImportSound,
      Phrase("name", << PhonemeNode("aa", Int_(0), 0) >>),
      Sound("name", << PhonemeNode("aa", Int_(0), 0) >>),
      Phrase("aa", << PhonemeNode("aa", Int_(0), 0) >>),
      VoiceNode("aa", << PKv("sx", 0) >>),
      VoiceNode("Paul", << >>),
      PhonemeNode("name", Int_(30), 0) }

\* The most nodes of a program of registrations, its EofNode not counted.
MaxRegisterNodes == 2

\* The most imports of one file (the count of the import tests).
MaxImports == 5

\* source * count of the import tests: n imports of one file.
RepeatedImport(import, n) == [i \in 1..n |-> import] \o << EofNode >>

RepeatedImports ==
    { RepeatedImport(import, n) :
          import \in {ImportPhrase, ImportSound}, n \in 1..MaxImports }

InitRegister ==
    InitWith(Programs(RegisterNodes, MaxRegisterNodes) \cup RepeatedImports)

SpecRegister == InitRegister /\ [][Next]_vars

\* The register commands a top-level node hands to State.register: the
\* node itself, or those of the file it imports.
Registered(node) ==
    IF node.type # "CommandNode" THEN {}
    ELSE IF node.command \in {"phrase", "sound"} THEN {node}
    ELSE IF node.command = "import"
    THEN LET file == FILES[ResolvePath(FILES, state, node.parameters[1].s)]
         IN  { file[i] : i \in { j \in 1..Len(file) :
                                     /\ file[j].type = "CommandNode"
                                     /\ file[j].command \in {"phrase", "sound"} } }
    ELSE {}

\* The namespace map of a register command, and the other one.
SameNamespace(st, n) == IF n.command = "phrase" THEN st.phrases ELSE st.sounds

OtherNamespace(st, n) == IF n.command = "phrase" THEN st.sounds ELSE st.phrases

\* C3: registering as a phrase a name that is a registered sound, or as a
\* sound a name that is a registered phrase, raises a Registration error
\* and ends the processing with it, whether the command stands in the
\* program or in an imported file.
C3_CrossNamespaceRaises ==
    [][Running =>
          \A n \in Registered(current) :
              n.parameters[1].s \in DOMAIN OtherNamespace(state, n)
                  => /\ register(state, n).error = RegistrationError
                     /\ error' = RegistrationError
                     /\ state' = state]_vars

\* A sound registered by one imported file, then the same name registered
\* as a phrase by another: the second import has raised.
C3_Witness ==
    /\ Len(nodes) = 3
    /\ nodes[1] = ImportSound
    /\ nodes[2] = ImportPhrase
    /\ index = 2
    /\ "name" \in DOMAIN state.sounds
    /\ error = RegistrationError

ImportedBefore == \E j \in 1..(index - 1) : nodes[j] = current

OnlyDefinition(st, import) ==
    IF import = ImportPhrase
    THEN /\ DOMAIN st.phrases = {"name"}
         /\ st.phrases["name"] = ImportPhraseNode.context
         /\ DOMAIN st.sounds = {}
    ELSE /\ DOMAIN st.sounds = {"name"}
         /\ st.sounds["name"] = ImportSoundNode.context
         /\ DOMAIN st.phrases = {}

\* C6: importing the file that registers the phrase (or the sound) `name`
\* through N import commands, N from 1 to 5, raises no error, writes
\* nothing, and ends with `name` as the only definition, equal to the
\* file's.
C6_RepeatedImportIdempotent ==
    \A import \in {ImportPhrase, ImportSound}, n \in 1..MaxImports :
        nodes = RepeatedImport(import, n)
            => /\ error = NoError
               /\ writer = ""
               /\ index > 1 => OnlyDefinition(state, import)
               /\ done => index = n + 1

\* The run of five imports of import_sound.opendec has finished.
C6_Witness ==
    /\ nodes = RepeatedImport(ImportSound, 5)
    /\ done
    /\ "name" \in DOMAIN state.sounds

\* C7 (as the code has it): no name is both a registered phrase and a
\* registered sound, no registered phrase or sound name is a built-in
\* phoneme, and no registered voice name is a default voice name.
C7_NamespaceInvariant ==
    /\ DOMAIN state.phrases \cap DOMAIN state.sounds = {}
    /\ (DOMAIN state.phrases \cup DOMAIN state.sounds) \cap PHONEMES = {}
    /\ DOMAIN state.voices \cap VOICE_DEFAULT_NAMES = {}

\* A register call has failed after one that registered a definition.
C7_Witness ==
    /\ error = RegistrationError
    /\ index = 2
    /\ DOMAIN state.phrases \cup DOMAIN state.sounds # {}

\* C7 (as stated): as above, and no registered voice name is a built-in
\* phoneme either.
C7_NamespaceInvariantWithVoices ==
    /\ DOMAIN state.phrases \cap DOMAIN state.sounds = {}
    /\ (DOMAIN state.phrases \cup DOMAIN state.sounds \cup DOMAIN state.voices)
           \cap PHONEMES = {}
    /\ DOMAIN state.voices \cap VOICE_DEFAULT_NAMES = {}

(***************************************************************************)
(* Sounds: programs that define a sound at the top level, where it is      *)
(* validated, or inside a loop context, where it is not, and invoke it.    *)
(***************************************************************************)
Ph(phoneme) == PhonemeNode(phoneme, Int_(0), 0)

\* [:sound ba] {b aa}, [:sound baib] {b aa iy b},
\* [:loop 1] {[:sound name] {aa b aa}}, [:loop 1] {[:sound name] {b}},
\* ba<30,10>, ba<1>, ba<10>, baib<100,10>, name<100>, name<20>, [:bpm 60]
SoundNodes ==
    { Sound("ba", << Ph("b"), Ph("aa") >>),
      Sound("baib", << Ph("b"), Ph("aa"), Ph("iy"), Ph("b") >>),
      Loop(1, << Sound("name", << Ph("aa"), Ph("b"), Ph("aa") >>) >>),
      Loop(1, << Sound("name", << Ph("b") >>) >>),
      PhonemeNode("ba", Int_(30), 10),
      PhonemeNode("ba", Int_(1), 0),
      PhonemeNode("ba", Int_(10), 0),
      PhonemeNode("baib", Int_(100), 10),
      PhonemeNode("name", Int_(100), 0),
      PhonemeNode("name", Int_(20), 0),
      Bpm(60) }

\* The most nodes of a program of sounds, its EofNode not counted.
MaxSoundNodes == 3

InitSound == InitWith(Programs(SoundNodes, MaxSoundNodes))

SpecSound == InitSound /\ [][Next]_vars

\* The step about to be taken expands a registered sound.
AtSound ==
    /\ Running
    /\ current.type = "PhonemeNode"
    /\ current.phoneme \notin PHONEMES
    /\ current.phoneme \notin DOMAIN state.phrases
    /\ current.phoneme \in DOMAIN state.sounds

\* The number of nodes of a sound whose phoneme is of the given class.
CountOf(sound, class) ==
    Cardinality({ i \in 1..Len(sound) : sound[i].phoneme \in class })

\* The total duration an invocation asks for, scaled by the tempo.
ScaledLength(node, st) == IntOfProduct(node.length, st.bpm_to_ms)

\* The nodes of a sound from the i-th on in definition order: a consonant
\* with duration 15 and no pitch, any other with the given duration and
\* pitch.
RECURSIVE SoundTextInOrder(_, _, _, _)
SoundTextInOrder(sound, i, vlength, pitch) ==
    IF i > Len(sound) THEN ""
    ELSE (IF sound[i].phoneme \in PHONEMES_CONSONANTS
          THEN ConsonantText(sound, i, i)
          ELSE ReprPhoneme(VowelNode(sound[i], vlength, pitch)))
         \o SoundTextInOrder(sound, i + 1, vlength, pitch)

\* C8: expanding a registered sound of c consonants and v >= 1 vowels
\* with scaled duration T >= 15*c and pitch P emits its phonemes in
\* definition order, every consonant with duration 15 and no pitch, every
\* vowel with duration floor((T - 15*c) / v) and pitch P.
C8_SoundExpansion ==
    [][AtSound =>
          LET sound == state.sounds[current.phoneme]
              c     == CountOf(sound, PHONEMES_CONSONANTS)
              v     == CountOf(sound, PHONEMES_VOWELS)
              T     == ScaledLength(current, state)
          IN  (v >= 1 /\ T >= CONSONANT_LENGTH * c)
                  => /\ error' = NoError
                     /\ writer' = writer \o
                            SoundTextInOrder(sound, 1,
                                (T - CONSONANT_LENGTH * c) \div v,
                                current.pitch)]_vars

\* C9: expanding a registered sound of c consonants with scaled duration
\* T raises a Runtime error exactly when T < 15*c, and an expansion that
\* raises writes nothing.
C9_SoundTooShort ==
    [][AtSound =>
          LET sound == state.sounds[current.phoneme]
              c     == CountOf(sound, PHONEMES_CONSONANTS)
              T     == ScaledLength(current, state)
          IN  /\ (error' = RuntimeError) <=> (T < CONSONANT_LENGTH * c)
              /\ error' # NoError => writer' = writer]_vars

(***************************************************************************)
(* Tempo: programs of bpm commands and built-in phonemes.  The lengths and *)
(* multipliers are those of test_process_bpm, all exact in binary floating *)
(* point, so the rationals of the model are the floats of the code.        *)
(***************************************************************************)
\* [:bpm 60], [:bpm 120], [:bpm 0], _<1>, _<0.125> and aa<1,10>
TempoNodes ==
    { Bpm(60), Bpm(120), Bpm(0),
      PhonemeNode("_", Int_(1), 0),
      PhonemeNode("_", Rat(1, 8), 0),
      PhonemeNode("aa", Int_(1), 10) }

\* The most nodes of a program of tempo changes, its EofNode not counted.
MaxTempoNodes == 3

InitTempo == InitWith(Programs(TempoNodes, MaxTempoNodes))

SpecTempo == InitTempo /\ [][Next]_vars

\* The step about to be taken processes a top-level built-in phoneme.
AtBuiltin ==
    /\ Running
    /\ current.type = "PhonemeNode"
    /\ current.phoneme \in PHONEMES

\* k = floor(d * m) for the rationals d and m.
IsFloorOfProduct(k, d, m) ==
    /\ k * (d.den * m.den) <= d.num * m.num
    /\ d.num * m.num < (k + 1) * (d.den * m.den)

\* C10: a built-in phoneme of parsed duration d processed under the tempo
\* multiplier m is emitted with duration floor(d * m), so _<1> after
\* [:bpm 60] is [_<1000>] and after [:bpm 120] is [_<500>]; a bpm command
\* writes nothing, and no step changes the text already written.
C10_TempoScaling ==
    [][/\ AtBuiltin =>
              \E k \in { nodes'[index].length.num } :
                  /\ nodes'[index].length.den = 1
                  /\ IsFloorOfProduct(k, current.length, state.bpm_to_ms)
                  /\ error' = NoError
                  /\ writer' = writer \o
                         ReprPhoneme([current EXCEPT !.length = Int_(k)])
       /\ (AtBuiltin /\ index = 2 /\ current = PhonemeNode("_", Int_(1), 0))
              => /\ nodes[1] = Bpm(60) => writer' = "[_<1000>]"
                 /\ nodes[1] = Bpm(120) => writer' = "[_<500>]"
       /\ (Running /\ current.type = "CommandNode" /\ current.command = "bpm")
              => writer' = writer /\ nodes' = nodes
       /\ SubSeq(writer', 1, Len(writer)) = writer]_vars

\* _<0.125> processed after [:bpm 120]: 62.5 ms, emitted as 62.
C10_Witness ==
    /\ nodes[1] = Bpm(120)
    /\ index = 3
    /\ error = NoError
    /\ writer = "[_<62>]"

(***************************************************************************)
(* Tempo and definitions: programs that register a phrase, a sound and a   *)
(* voice, set the tempo (the bpm values of test_bpm, and 0) and replay the *)
(* phrase.                                                                 *)
(***************************************************************************)
\* [:bpm 0], [:bpm 60], [:bpm 90], [:phrase a] {aa<1>}, [:sound ba] {b aa},
\* [:voice name] {sx 0} and a
TempoStateNodes ==
    { Bpm(0), Bpm(60), Bpm(90),
      Phrase("a", << PhonemeNode("aa", Int_(1), 0) >>),
      Sound("ba", << Ph("b"), Ph("aa") >>),
      VoiceNode("name", << PKv("sx", 0) >>),
      Ph("a") }

\* The most nodes of such a program, its EofNode not counted.
MaxTempoStateNodes == 3

InitTempoState == InitWith(Programs(TempoStateNodes, MaxTempoStateNodes))

SpecTempoState == InitTempoState /\ [][Next]_vars

IsBpm(node) == node.type = "CommandNode" /\ node.command = "bpm"

\* The step about to be taken processes a top-level bpm command.
AtBpm == Running /\ IsBpm(current)

\* m is the multiplier of the tempo bpm: 1 for bpm 0, 60000/bpm otherwise.
IsMultiplierOf(m, bpm) ==
    IF bpm = 0 THEN m.num = m.den
    ELSE m.num * bpm = MS_PER_MINUTE * m.den

\* The bpm commands among the first n nodes of the program.
BpmsBefore(ns, n) == { j \in 1..n : IsBpm(ns[j]) }

\* m is the multiplier of the last tempo set by the first n nodes of ns,
\* and 1 when they set none.
IsMultiplierOfLastBpm(m, ns, n) ==
    IF BpmsBefore(ns, n) = {} THEN m.num = m.den
    ELSE LET last == CHOOSE j \in BpmsBefore(ns, n) :
                         \A k \in BpmsBefore(ns, n) : k <= j
         IN  IsMultiplierOf(m, ns[last].parameters[1].i)

\* C11: the tempo multiplier is that of the last bpm set, 1 for bpm 0 and
\* 60000/bpm otherwise, whatever was set before; and setting the tempo
\* raises nothing and leaves every registered phrase, sound and voice as
\* it was.
C11_TempoOfLastBpm ==
    [][/\ IsMultiplierOfLastBpm(state'.bpm_to_ms, nodes', index' - 1)
       /\ AtBpm =>
              /\ error' = NoError
              /\ IsMultiplierOf(state'.bpm_to_ms, current.parameters[1].i)
              /\ state'.phrases = state.phrases
              /\ state'.sounds = state.sounds
              /\ state'.voices = state.voices]_vars

\* [:phrase a] {aa<1>} [:bpm 60] [:bpm 0]: the tempo is reset with the
\* phrase registered.
C11_Witness ==
    /\ index = 4
    /\ nodes[2] = Bpm(60)
    /\ nodes[3] = Bpm(0)
    /\ "a" \in DOMAIN state.phrases
    /\ state.bpm_to_ms = Int_(1)

(***************************************************************************)
(* Output order: programs with an import command at the top level, inside  *)
(* a loop context and inside a phrase that is replayed.                    *)
(***************************************************************************)
\* [:import import_command.opendec], [:import import_phoneme.opendec],
\* _<1>, [:loop 1] {_<1> [:import import_command.opendec]},
\* [:phrase intro] {aa [:import import_command.opendec]} and intro
OrderNodes ==
    { Import("import_command.opendec"), Import("import_phoneme.opendec"),
      PhonemeNode("_", Int_(1), 0),
      Loop(1, << PhonemeNode("_", Int_(1), 0),
                 Import("import_command.opendec") >>),
      Phrase("intro", << Ph("aa"), Import("import_command.opendec") >>),
      Ph("intro") }

\* The most nodes of such a program, its EofNode not counted.
MaxOrderNodes == 3

InitOrder == InitWith(Programs(OrderNodes, MaxOrderNodes))

SpecOrder == InitOrder /\ [][Next]_vars

\* The contributions of the nodes of a context from the i-th on, joined in
\* traversal order under the state st: a loop command of count 1 and a
\* phoneme that names a phrase contribute what their own nodes do in
\* order, an import command the text its file writes, any other node the
\* text its handler returns.
RECURSIVE TextInTraversalOrder(_, _, _)
TextInTraversalOrder(context, i, st) ==
    IF i > Len(context) THEN ""
    ELSE LET n == context[i]
             r == process_context(<< n >>, 1, "", st, "", 1)
             own ==
                 IF n.type = "CommandNode" /\ n.command = "loop"
                 THEN TextInTraversalOrder(n.context, 1, st)
                 ELSE IF /\ n.type = "PhonemeNode"
                         /\ n.phoneme \notin PHONEMES
                         /\ n.phoneme \in DOMAIN st.phrases
                 THEN TextInTraversalOrder(st.phrases[n.phoneme], 1, st)
                 ELSE r.writer \o r.buffer
         IN  own \o TextInTraversalOrder(context, i + 1, r.state)

\* C12: a step that completes appends to the output the contributions of
\* the nodes it traverses in traversal order, the text of an imported
\* file at the place of its import command, at the top level, inside a
\* loop context (of count 1) and inside a replayed phrase.
C12_OutputInTraversalOrder ==
    [][(Running /\ current.type # "EofNode" /\ error' = NoError)
          => writer' = writer \o TextInTraversalOrder(<< current >>, 1, state)]_vars

(***************************************************************************)
(* Path resolution: programs that import and play files that are in one    *)
(* include directory, in several, in the working directory, or nowhere.    *)
(***************************************************************************)
Play(filename) == CommandNode("play", << PStr(filename) >>, << >>)

PathNodes ==
    { Import("import_command.opendec"), Import("shared.opendec"),
      Import("local.opendec"), Import("doesnotexist.opendec"),
      Play("blah.wav"), Play("shared.wav"), Play("doesnotexist.wav"),
      PhonemeNode("_", Int_(1), 0) }

\* The most nodes of such a program, its EofNode not counted.
MaxPathNodes == 2

InitPath == InitWith(Programs(PathNodes, MaxPathNodes))

SpecPath == InitPath /\ [][Next]_vars

\* The step about to be taken processes a top-level import or play command.
AtPathCommand ==
    /\ Running
    /\ current.type = "CommandNode"
    /\ current.command \in {"import", "play"}

\* The include directories, in list order, that hold the file.
Holding(files, includes, filename) ==
    { i \in 1..Len(includes) : IsFile(files, Join(includes[i], filename)) }

\* The first location that holds the file: the working directory, then
\* the include directories in list order; "" when none does.
FirstMatch(files, st, filename) ==
    IF IsFile(files, Join(st.cwd, filename)) THEN Join(st.cwd, filename)
    ELSE IF Holding(files, st.includes, filename) = {} THEN ""
    ELSE LET first == CHOOSE i \in Holding(files, st.includes, filename) :
                          \A j \in Holding(files, st.includes, filename) : i <= j
         IN  Join(st.includes[first], filename)

\* C13: import and play use the first location that holds the file, the
\* working directory before the include directories and these in list
\* order; they raise the not-found error exactly when no location holds
\* it.
C13_FirstMatchWins ==
    [][AtPathCommand =>
          LET filepath == FirstMatch(FILES, state, current.parameters[1].s)
          IN  /\ (error' = FileNotFoundError) <=> (filepath = "")
              /\ (filepath # "" /\ current.command = "play")
                     => writer' = writer \o
                            Repr([current EXCEPT !.parameters[1] = PStr(filepath)])
              /\ (filepath # "" /\ current.command = "import")
                     => writer' = process_nodes(FILES[filepath], 1, state,
                                                writer, 1).writer]_vars

(***************************************************************************)
(* Shared state: programs that import files which register definitions,   *)
(* set the tempo, emit phonemes and invoke a name their importer defines.  *)
(***************************************************************************)
\* [:import F] for import_phrase, import_sound, import_voice,
\* import_phoneme, tempo and invoke (.opendec), [:bpm 60] and name<30>
ShareNodes ==
    { ImportPhrase, ImportSound, Import("import_voice.opendec"),
      Import("import_phoneme.opendec"), Import("tempo.opendec"),
      Import("invoke.opendec"), Bpm(60), PhonemeNode("name", Int_(30), 0) }

\* The most nodes of such a program, its EofNode not counted.
MaxShareNodes == 2

InitShare == InitWith(Programs(ShareNodes, MaxShareNodes))

SpecShare == InitShare /\ [][Next]_vars

\* The step about to be taken processes a top-level import command of a
\* file that exists.
AtImport ==
    /\ Running
    /\ current.type = "CommandNode"
    /\ current.command = "import"
    /\ ResolvePath(FILES, state, current.parameters[1].s) # ""

\* The name is a phrase or a sound of the state.
Defined(st, name) == name \in DOMAIN st.phrases \cup DOMAIN st.sounds

\* What the importer sees after a completed import of file from state st:
\* st2 holds every definition the file registers and every definition st
\* held, and its tempo is the last the file set (the importer's when the
\* file set none and replayed no phrase).
FileInEffectAfter(file, st, st2) ==
    /\ \A i \in 1..Len(file) :
          /\ (file[i].type = "CommandNode" /\ file[i].command \in {"phrase", "sound"})
                 => /\ file[i].parameters[1].s \in DOMAIN SameNamespace(st2, file[i])
                    /\ SameNamespace(st2, file[i])[file[i].parameters[1].s]
                           = file[i].context
          /\ file[i].type = "VoiceNode" => file[i].name \in DOMAIN st2.voices
    /\ DOMAIN st.phrases \subseteq DOMAIN st2.phrases
    /\ DOMAIN st.sounds \subseteq DOMAIN st2.sounds
    /\ DOMAIN st.voices \subseteq DOMAIN st2.voices
    /\ BpmsBefore(file, Len(file)) # {}
           => IsMultiplierOfLastBpm(st2.bpm_to_ms, file, Len(file))
    /\ (\A i \in 1..Len(file) :
            ~IsBpm(file[i])
            /\ (file[i].type = "PhonemeNode" => file[i].phoneme \notin DOMAIN st.phrases))
           => st2.bpm_to_ms = st.bpm_to_ms

\* What the first node of an imported file does when it is a phoneme: it
\* is scaled by the importer's tempo and resolved against the importer's
\* definitions; w and w2 are the output before and after the import, e
\* the error the import ends with.
ImporterInEffectInside(file, st, w, w2, e) ==
    LET n      == file[1]
        scaled == [n EXCEPT !.length = Int_(IntOfProduct(n.length, st.bpm_to_ms))]
        text   == IF n.phoneme \in PHONEMES THEN ReprPhoneme(scaled)
                  ELSE process_phoneme(st, "", scaled, 1).buffer
    IN  n.type = "PhonemeNode"
            => /\ (n.phoneme \in PHONEMES \/ Defined(st, n.phoneme)) => e # NameError
               /\ (n.phoneme \notin PHONEMES /\ ~Defined(st, n.phoneme)) => e = NameError
               /\ e = NoError
                      => /\ Len(w2) >= Len(w) + Len(text)
                         /\ SubSeq(w2, 1, Len(w) + Len(text)) = w \o text

\* C14: an imported file is processed with the state of its importer:
\* after a completed import the state holds what the file registered and
\* the tempo it set together with the importer's own definitions, and
\* inside the file the importer's definitions and tempo are in effect.
C14_ImportSharesState ==
    [][AtImport =>
          LET file == FILES[ResolvePath(FILES, state, current.parameters[1].s)]
          IN  /\ error' = NoError => FileInEffectAfter(file, state, state')
              /\ ImporterInEffectInside(file, state, writer, writer', error')]_vars

\* [:import import_sound.opendec] [:import invoke.opendec]: the second file
\* has expanded the sound the first one registered.
C14_Witness ==
    /\ Len(nodes) = 3
    /\ nodes[1] = ImportSound
    /\ nodes[2] = Import("invoke.opendec")
    /\ index = 3
    /\ error = NoError
    /\ writer = "[b<15>][aa<70>][b<15>]"

(***************************************************************************)
(* Termination: programs with a phrase whose body names the phrase itself, *)
(* a file that imports itself and a file that imports another.  The        *)
(* nesting of calls is bounded by the interpreter, which raises            *)
(* RecursionError; the process loop takes its next iteration whenever it   *)
(* can (weak fairness of Next).                                            *)
(***************************************************************************)
\* [:phrase a] {a}, [:phrase a] {aa}, a, [:import self.opendec],
\* [:import nested.opendec] and _<1>
TerminateNodes ==
    { Phrase("a", << Ph("a") >>), Phrase("a", << Ph("aa") >>), Ph("a"),
      Import("self.opendec"), Import("nested.opendec"),
      PhonemeNode("_", Int_(1), 0) }

\* The most nodes of such a program, its EofNode not counted.
MaxTerminateNodes == 2

InitTerminate == InitWith(Programs(TerminateNodes, MaxTerminateNodes))

SpecTerminate == InitTerminate /\ [][Next]_vars /\ WF_vars(Next)

\* C15: processing reaches the EofNode of the top-level file or ends with
\* an error, also for a phrase that names itself and for a file that
\* imports itself, whose unbounded nesting ends with the interpreter's
\* RecursionError.
C15_Terminates == <>(done \/ error # NoError)

\* [:phrase a] {a} a: the replay of the phrase has ended with an error.
C15_Witness ==
    /\ nodes[1] = Phrase("a", << Ph("a") >>)
    /\ nodes[2] = Ph("a")
    /\ index = 2
    /\ error = RecursionError

(***************************************************************************)
(* Errors: programs that import a file with a node that raises, directly   *)
(* and through another file, with nodes before and after the import.       *)
(***************************************************************************)
\* [:import failing.opendec], [:import outer.opendec], _<5>, [:bpm 90],
\* [:phrase missing] {aa<3>}, missing and [:loop 2] {_<1> missing}
ErrorNodes ==
    { Import("failing.opendec"), Import("outer.opendec"),
      PhonemeNode("_", Int_(5), 0), Bpm(90),
      Phrase("missing", << PhonemeNode("aa", Int_(3), 0) >>),
      Ph("missing"),
      Loop(2, << PhonemeNode("_", Int_(1), 0), Ph("missing") >>) }

\* The most nodes of such a program, its EofNode not counted.
MaxErrorNodes == 3

InitError == InitWith(Programs(ErrorNodes, MaxErrorNodes))

SpecError == InitError /\ [][Next]_vars

\* The nodes of file before its node j, as a file of their own.
Before(file, j) == Append(SubSeq(file, 1, j - 1), EofNode)

\* The import of file from state st and output w has ended at the first
\* node of the file that raises: the nodes before it have been processed
\* without an error, and the output w2, the state st2 and the error e are
\* those that node leaves when it raises.
EndedAtFirstFailure(file, st, w, st2, w2, e) ==
    \E j \in 1..(Len(file) - 1) :
        LET before == process_nodes(Before(file, j), 1, st, w, 1)
            r      == process_node(before.state, before.writer, file[j], 1)
        IN  /\ before.error = NoError
            /\ r.error # NoError
            /\ e = r.error
            /\ w2 = r.writer
            /\ st2 = r.state

\* C16: the first error ends the compilation.  Once an error has been
\* raised neither the output nor the state changes again, and an import
\* whose file raises (itself or through a file it imports) raises that
\* error in the importer with the output and the state as the failing node
\* left them: the nodes that follow it in the file have done nothing.
C16_FirstErrorAborts ==
    [][/\ error # NoError => UNCHANGED << writer, state, error, done >>
       /\ (AtImport /\ error' # NoError)
              => EndedAtFirstFailure(
                     FILES[ResolvePath(FILES, state, current.parameters[1].s)],
                     state, writer, state', writer', error')]_vars

\* _<5> [:import outer.opendec] _<5>: the error of failing.opendec has come
\* through outer.opendec to the top level; the output ends with the node
\* before the failing one and the tempo is the one set before it.
C16_Witness ==
    /\ Len(nodes) = 4
    /\ nodes[2] = Import("outer.opendec")
    /\ nodes[3] = PhonemeNode("_", Int_(5), 0)
    /\ index = 2
    /\ error = NameError
    /\ writer = "[_<5>][aa<1>][_<1>]"
    /\ state.bpm_to_ms = Rat(500, 1)
    /\ ~done

(***************************************************************************)
(* components/position.py, reader.py, token.py and lexer.py.  A source is  *)
(* a string and a character a string of length 1 ("" past the end, as in   *)
(* Reader.advance).  A token's value is tagged with its Python type as a   *)
(* node's parameter is: "str", "int", "float" (value f) or "None".         *)
(***************************************************************************)
SPECIAL_CHARACTERS == {",", "{", "}", "[", "]", "<", ">"}

WHITESPACE == {" ", "\n", "\r", "\t"}

BREAK_CHARS == WHITESPACE \cup SPECIAL_CHARACTERS \cup {"/"}

TOKENTYPE_SPECIALCHAR_MAP ==
    ("," :> "COMMA") @@ ("{" :> "LBRACE") @@ ("}" :> "RBRACE")
    @@ ("[" :> "LBRACKET") @@ ("]" :> "RBRACKET")
    @@ ("<" :> "LCHEVRON") @@ (">" :> "RCHEVRON")

\* Position.__init__
Position == [index |-> 0, line |-> 0, column |-> 0]

\* Position.advance
PositionAdvance(pos, c) ==
    IF c = "\n" THEN [index |-> pos.index + 1, line |-> pos.line + 1, column |-> 0]
    ELSE [index |-> pos.index + 1, line |-> pos.line, column |-> pos.column + 1]

\* Position.__repr__ of a position in a source text (no file name)
ReprPosition(pos) ==
    "<Position: file '', line " \o ToString(pos.line + 1)
        \o ", col " \o ToString(pos.column) \o ">"

\* The exception Reader.__init__ raises for an empty source.
ReaderException == "ReaderException"

\* LexerException(pos, type_, details): the message of
\* LoggingPositionalException holds the type and the position.
LexerException(pos, type_) == "LexerException:" \o type_ \o " " \o ReprPosition(pos)

\* Python's TypeError for a call of LexerException with two arguments:
\* __init__ of LoggingPositionalException requires pos, type_ and details.
MissingArgumentError == "TypeError"

PNone == [t |-> "None", i |-> 0, s |-> ""]

PFloat(x) == [t |-> "float", i |-> 0, s |-> "", f |-> x]

\* Token.__init__
Token(type_, value, pos) == [type |-> type_, value |-> value, pos |-> pos]

\* None, where a token is expected
NoToken == [type |-> "None"]

\* source[i] of a Python string, "" from the end on
CharAt(source, i) ==
    IF i < Len(source) THEN SubSeq(source, i + 1, i + 1) ELSE ""

\* str.strip()
RECURSIVE Strip(_)
Strip(source) ==
    IF Len(source) = 0 THEN source
    ELSE IF SubSeq(source, 1, 1) \in WHITESPACE
    THEN Strip(SubSeq(source, 2, Len(source)))
    ELSE IF SubSeq(source, Len(source), Len(source)) \in WHITESPACE
    THEN Strip(SubSeq(source, 1, Len(source) - 1))
    ELSE source

\* Reader.__init__ on a source text that is not the path of a file
Reader(source) ==
    LET stripped == Strip(source)
    IN  [source |-> stripped, char |-> CharAt(stripped, 0), pos |-> Position]

\* Reader.advance
ReaderAdvance(rd) ==
    LET pos == PositionAdvance(rd.pos, rd.char)
    IN  [source |-> rd.source, char |-> CharAt(rd.source, pos.index), pos |-> pos]

\* int(number) of a string of digits
RECURSIVE ParseInt(_)
ParseInt(number) ==
    IF Len(number) = 0 THEN 0
    ELSE 10 * ParseInt(SubSeq(number, 1, Len(number) - 1))
         + (CHOOSE d \in 0..9 :
                ToString(d) = SubSeq(number, Len(number), Len(number)))

RECURSIVE PowerOfTen(_)
PowerOfTen(k) == IF k = 0 THEN 1 ELSE 10 * PowerOfTen(k - 1)

\* float(number) of a string of digits with one dot, as an exact number
ParseFloat(number) ==
    LET dot   == CHOOSE i \in 1..Len(number) : SubSeq(number, i, i) = "."
        whole == SubSeq(number, 1, dot - 1)
        frac  == SubSeq(number, dot + 1, Len(number))
    IN  Rat(ParseInt(whole) * PowerOfTen(Len(frac)) + ParseInt(frac),
            PowerOfTen(Len(frac)))

\* The result of a scan: the reader after it and the token it returns, or
\* the error it raises.
Scanned(rd, token, e) == [reader |-> rd, token |-> token, error |-> e]

\* The result of read_remaining
Remaining(rd, remaining, e) == [reader |-> rd, remaining |-> remaining, error |-> e]

RECURSIVE read_remaining(_), scan_comment(_)

\* The loop of read_remaining: up to the end or a break character.
RECURSIVE ReadToBreak(_, _)
ReadToBreak(rd, remaining) ==
    IF rd.char # "" /\ rd.char \notin BREAK_CHARS
    THEN The({ ReadToBreak(a, text) :
               a \in { ReaderAdvance(rd) }, text \in { remaining \o rd.char } })
    ELSE Remaining(rd, remaining, NoError)

\* Lexer.read_remaining
read_remaining(rd) ==
    The({ IF r.reader.char = "/"
          THEN The({ IF c.error # NoError THEN Remaining(c.reader, "", c.error)
                     ELSE IF c.token # NoToken
                     THEN Remaining(c.reader, r.remaining \o c.token.value.s, NoError)
                     ELSE Remaining(c.reader, r.remaining, NoError) :
                     c \in { scan_comment(r.reader) } })
          ELSE r :
          r \in { ReadToBreak(rd, "") } })

\* The loop of scan_comment for an inline comment: up to the end of the
\* line.
RECURSIVE SkipInlineComment(_)
SkipInlineComment(rd) ==
    IF rd.char # "" /\ rd.char # "\n"
    THEN The({ SkipInlineComment(a) : a \in { ReaderAdvance(rd) } })
    ELSE rd

\* The loop of scan_comment for a block comment.  closed is false when the
\* loop ends without its break.
RECURSIVE SkipBlockComment(_)
SkipBlockComment(rd) ==
    IF rd.char = "" THEN [reader |-> rd, closed |-> FALSE]
    ELSE The({ IF a.char = "*"
               THEN The({ IF b.char = "/"
                          THEN [reader |-> ReaderAdvance(b), closed |-> TRUE]
                          ELSE SkipBlockComment(b) :
                          b \in { ReaderAdvance(a) } })
               ELSE SkipBlockComment(a) :
               a \in { ReaderAdvance(rd) } })

\* Lexer.scan_comment.  The raise for an open block comment calls
\* LexerException(pos, "OpenBlockCommentException" "Found ..."), whose two
\* adjacent string literals are one argument.
scan_comment(rd) ==
    LET pos == rd.pos
    IN  The({ IF r1.char = "/" THEN Scanned(SkipInlineComment(r1), NoToken, NoError)
              ELSE IF r1.char = "*"
              THEN The({ IF b.closed THEN Scanned(b.reader, NoToken, NoError)
                         ELSE Scanned(b.reader, NoToken, MissingArgumentError) :
                         b \in { SkipBlockComment(r1) } })
              ELSE The({ IF rr.error # NoError
                         THEN Scanned(rr.reader, NoToken, rr.error)
                         ELSE Scanned(rr.reader,
                                      Token("STRING", PStr("/" \o rr.remaining), pos),
                                      NoError) :
                         rr \in { read_remaining(r1) } }) :
              r1 \in { ReaderAdvance(rd) } })

\* The loop of scan_number, with the digits read so far and fp.
RECURSIVE ScanDigits(_, _, _, _)
ScanDigits(rd, pos, number, fp) ==
    IF rd.char = "" \/ rd.char \in BREAK_CHARS
    THEN [reader |-> rd, number |-> number, fp |-> fp, error |-> NoError]
    ELSE IF rd.char \in Digits \/ (rd.char = "." /\ ~fp)
    THEN The({ ScanDigits(a, pos, text, dot) :
               a \in { ReaderAdvance(rd) }, text \in { number \o rd.char },
               dot \in { fp \/ rd.char = "." } })
    ELSE The({ [reader |-> rr.reader, number |-> number \o rr.remaining, fp |-> fp,
                error |-> Then(rr.error, LexerException(pos, "ValueError"))] :
               rr \in { read_remaining(rd) } })

\* Lexer.scan_number
scan_number(rd) ==
    The({ IF r.error # NoError THEN Scanned(r.reader, NoToken, r.error)
          ELSE IF r.fp
          THEN Scanned(r.reader, Token("FLOAT", PFloat(ParseFloat(r.number)), rd.pos),
                       NoError)
          ELSE Scanned(r.reader, Token("INT", PInt(ParseInt(r.number)), rd.pos),
                       NoError) :
          r \in { ScanDigits(rd, rd.pos, "", FALSE) } })

\* A variant of scan_string that reads `-` followed by digits as a
\* negative INT.
scan_string_signed(rd) ==
    The({ IF rr.error # NoError THEN Scanned(rr.reader, NoToken, rr.error)
          ELSE IF /\ Len(rr.remaining) >= 2
                  /\ SubSeq(rr.remaining, 1, 1) = "-"
                  /\ \A k \in 2..Len(rr.remaining) :
                        SubSeq(rr.remaining, k, k) \in Digits
          THEN Scanned(rr.reader,
                       Token("INT",
                             PInt(0 - ParseInt(SubSeq(rr.remaining, 2,
                                                      Len(rr.remaining)))),
                             rd.pos),
                       NoError)
          ELSE Scanned(rr.reader, Token("STRING", PStr(rr.remaining), rd.pos), NoError) :
          rr \in { read_remaining(rd) } })

\* Lexer.scan_string
scan_string(rd) ==
    The({ IF rr.error # NoError THEN Scanned(rr.reader, NoToken, rr.error)
          ELSE Scanned(rr.reader, Token("STRING", PStr(rr.remaining), rd.pos), NoError) :
          rr \in { read_remaining(rd) } })

(***************************************************************************)
(* Lexer.get_tokens as a state machine: one step per iteration of its      *)
(* loop, and one for the End-of-input token and the return.  done is       *)
(* "get_tokens has returned tokens"; after an error nothing is returned.   *)
(***************************************************************************)
\* Lexer.__init__ on a source of the given set.
InitLexerWith(sources) ==
    /\ \E source \in sources :
          /\ reader = Reader(source)
          /\ error = IF Len(Strip(source)) = 0 THEN ReaderException ELSE NoError
    /\ tokens = << >>
    /\ done = FALSE
    /\ nodes = << >>
    /\ index = 1
    /\ state = NewState(CWD, << >>)
    /\ writer = ""

\* The effect of a scan on the machine's variables.
Scan(r) ==
    /\ reader' = r.reader
    /\ error' = r.error
    /\ tokens' = IF r.error = NoError /\ r.token # NoToken
                 THEN Append(tokens, r.token) ELSE tokens
    /\ UNCHANGED << done, nodes, index, state, writer >>

SkipWhitespace ==
    /\ Running
    /\ reader.char \in WHITESPACE
    /\ reader' = ReaderAdvance(reader)
    /\ UNCHANGED << tokens, error, done, nodes, index, state, writer >>

ScanComment ==
    /\ Running
    /\ reader.char = "/"
    /\ \E r \in { scan_comment(reader) } : Scan(r)

ScanSpecialCharacter ==
    /\ Running
    /\ reader.char \in SPECIAL_CHARACTERS
    /\ IF reader.char \notin DOMAIN TOKENTYPE_SPECIALCHAR_MAP
       THEN Scan(Scanned(reader, NoToken,
                         LexerException(reader.pos,
                                        "SpecialCharImplementationException")))
       ELSE Scan(Scanned(ReaderAdvance(reader),
                         Token(TOKENTYPE_SPECIALCHAR_MAP[reader.char],
                               PStr(reader.char), reader.pos),
                         NoError))

ScanNumber ==
    /\ Running
    /\ reader.char \in Digits
    /\ \E r \in { scan_number(reader) } : Scan(r)

ScanString ==
    /\ Running
    /\ reader.char # ""
    /\ reader.char \notin WHITESPACE \cup {"/"} \cup SPECIAL_CHARACTERS \cup Digits
    /\ \E r \in { scan_string(reader) } : Scan(r)

\* The loop has ended: the End-of-input token is appended and the list
\* returned.
ReturnTokens ==
    /\ Running
    /\ reader.char = ""
    /\ tokens' = Append(tokens, Token("EOF", PNone, reader.pos))
    /\ done' = TRUE
    /\ UNCHANGED << reader, error, nodes, index, state, writer >>

NextLexer ==
    \/ SkipWhitespace \/ ScanComment \/ ScanSpecialCharacter
    \/ ScanNumber \/ ScanString \/ ReturnTokens

\* The pieces the sources are made of
Pieces == {"/*", "*/", "//", "/", "*", "a", " ", "\n", "1", ".", "<"}

\* The most pieces of a source
MaxPieces == 3

\* The sources of at most n pieces
RECURSIVE Sources(_)
Sources(n) ==
    IF n = 0 THEN {""}
    ELSE LET shorter == Sources(n - 1)
         IN  shorter \cup { s \o p : s \in shorter, p \in Pieces }

InitLexer == InitLexerWith(Sources(MaxPieces))

SpecLexer == InitLexer /\ [][NextLexer]_vars

(***************************************************************************)
(* What a source is, read without the lexer: its comments and the text of  *)
(* its tokens.  Indexes are those of Position.index, from 0.               *)
(***************************************************************************)
\* The two characters of source from index i
Two(source, i) == CharAt(source, i) \o CharAt(source, i + 1)

\* The index of the first `*/` of source from index i, -1 when none
RECURSIVE FirstClose(_, _)
FirstClose(source, i) ==
    IF i >= Len(source) THEN -1
    ELSE IF Two(source, i) = "*/" THEN i
    ELSE FirstClose(source, i + 1)

\* The index of the end of the line of index i: of its "\n" or of the end
RECURSIVE EndOfLine(_, _)
EndOfLine(source, i) ==
    IF i >= Len(source) \/ CharAt(source, i) = "\n" THEN i
    ELSE EndOfLine(source, i + 1)

\* From index i on, source holds only whitespace, line comments and
\* terminated block comments.
RECURSIVE OnlyComments(_, _)
OnlyComments(source, i) ==
    IF i >= Len(source) THEN TRUE
    ELSE IF CharAt(source, i) \in WHITESPACE THEN OnlyComments(source, i + 1)
    ELSE IF Two(source, i) = "//" THEN OnlyComments(source, EndOfLine(source, i))
    ELSE IF Two(source, i) = "/*"
    THEN /\ FirstClose(source, i + 2) >= 0
         /\ OnlyComments(source, FirstClose(source, i + 2) + 2)
    ELSE FALSE

\* The index of the `/` of the first block comment of source, from index
\* i, that no `*/` closes; -1 when every block comment is closed.
RECURSIVE OpenBlockComment(_, _)
OpenBlockComment(source, i) ==
    IF i >= Len(source) THEN -1
    ELSE IF Two(source, i) = "//" THEN OpenBlockComment(source, EndOfLine(source, i))
    ELSE IF Two(source, i) = "/*"
    THEN IF FirstClose(source, i + 2) >= 0
         THEN OpenBlockComment(source, FirstClose(source, i + 2) + 2)
         ELSE i
    ELSE OpenBlockComment(source, i + 1)

\* The position of index i of source
RECURSIVE PositionAt(_, _)
PositionAt(source, i) ==
    IF i = 0 THEN Position
    ELSE PositionAdvance(PositionAt(source, i - 1), CharAt(source, i - 1))

\* The error is a LexerException.
IsLexerException(e) == Len(e) >= 15 /\ SubSeq(e, 1, 15) = "LexerException:"

\* C17: for a source of comments only (line comments and terminated block
\* comments, whitespace between them) get_tokens raises no error, and the
\* list it returns is the End-of-input token alone.
C17_CommentsOnlyOneEof ==
    (reader.source # "" /\ OnlyComments(reader.source, 0))
        => /\ error = NoError
           /\ ~done => tokens = << >>
           /\ done => Len(tokens) = 1 /\ tokens[1].type = "EOF"

\* C18: for a source with a block comment that no `*/` closes, get_tokens
\* returns no list, and the error it ends with is a LexerException: of the
\* open comment, with the position of its `/`, unless a number before the
\* comment was invalid.
C18_OpenBlockCommentRaises ==
    LET open == OpenBlockComment(reader.source, 0)
    IN  open >= 0
            => /\ ~done
               /\ error # NoError
                      => \/ error = LexerException(PositionAt(reader.source, open),
                                                   "OpenBlockCommentException")
                         \/ \E i \in 0..(open - 1) :
                               error = LexerException(PositionAt(reader.source, i),
                                                      "ValueError")

\* The text of the token that starts at index i: up to the end or a break
\* character.
RECURSIVE TokenText(_, _)
TokenText(source, i) ==
    IF i >= Len(source) \/ CharAt(source, i) \in BREAK_CHARS THEN ""
    ELSE CharAt(source, i) \o TokenText(source, i + 1)

\* The number of dots of the text
RECURSIVE Dots(_)
Dots(text) ==
    IF Len(text) = 0 THEN 0
    ELSE (IF SubSeq(text, 1, 1) = "." THEN 1 ELSE 0)
         + Dots(SubSeq(text, 2, Len(text)))

\* The text is digits with at most one dot among them.
IsNumber(text) ==
    /\ \A i \in 1..Len(text) : SubSeq(text, i, i) \in Digits \cup {"."}
    /\ Dots(text) <= 1

\* The step about to be taken scans a token that starts with a digit.
AtNumber == Running /\ reader.char \in Digits

\* C19: the scan of a token that starts with a digit either appends one
\* INT or FLOAT token for the whole text, the text being digits with at
\* most one dot, or raises a LexerException and appends nothing, the text
\* having a second dot or another character.
C19_NumberWholeOrError ==
    [][AtNumber =>
          LET text == TokenText(reader.source, reader.pos.index)
          IN  IF IsNumber(text)
              THEN /\ error' = NoError
                   /\ Len(tokens') = Len(tokens) + 1
                   /\ tokens'[Len(tokens')].type = IF Dots(text) = 1 THEN "FLOAT" ELSE "INT"
                   /\ tokens'[Len(tokens')].value
                          = IF Dots(text) = 1 THEN PFloat(ParseFloat(text))
                            ELSE PInt(ParseInt(text))
                   /\ reader'.pos.index = reader.pos.index + Len(text)
              ELSE /\ IsLexerException(error')
                   /\ tokens' = tokens]_vars

(***************************************************************************)
(* components/parser.py.  The Parser's position is an index into the       *)
(* token list, from 1 here; a parse returns the index after the node it    *)
(* has read, and the node or the error it raises.                          *)
(***************************************************************************)
\* ParserException(pos, type_, details)
ParserException(pos, type_) ==
    "ParserException:" \o type_ \o " " \o ReprPosition(pos)

\* Parser.token after Parser.advance has brought the index to i
TokenAt(ts, i) == IF i <= Len(ts) THEN ts[i] ELSE ts[Len(ts)]

NoNode == [type |-> "None"]

Parsed(i, node, e) == [index |-> i, node |-> node, error |-> e]

\* Lexer.get_tokens run to its return, from the reader rd with the list ts.
RECURSIVE get_tokens(_, _)
get_tokens(rd, ts) ==
    IF rd.char = ""
    THEN [tokens |-> Append(ts, Token("EOF", PNone, rd.pos)), error |-> NoError]
    ELSE IF rd.char \in WHITESPACE
    THEN The({ get_tokens(a, ts) : a \in { ReaderAdvance(rd) } })
    ELSE IF rd.char \in SPECIAL_CHARACTERS
    THEN The({ get_tokens(a, more) :
               a \in { ReaderAdvance(rd) },
               more \in { Append(ts, Token(TOKENTYPE_SPECIALCHAR_MAP[rd.char],
                                           PStr(rd.char), rd.pos)) } })
    ELSE The({ IF r.error # NoError THEN [tokens |-> << >>, error |-> r.error]
               ELSE The({ get_tokens(r.reader, more) :
                          more \in { IF r.token # NoToken THEN Append(ts, r.token)
                                     ELSE ts } }) :
               r \in { IF rd.char = "/" THEN scan_comment(rd)
                       ELSE IF rd.char \in Digits THEN scan_number(rd)
                       ELSE scan_string(rd) } })

\* The length of a phoneme from the value of an INT or FLOAT token
LengthOf(value) == IF value.t = "int" THEN Int_(value.i) ELSE value.f

\* A variant of parse_phoneme without the special cases of its last lines:
\* the node keeps the length and the pitch the source wrote.
parse_phoneme_as_written(ts, i) ==
    LET pos      == TokenAt(ts, i).pos
        phoneme  == TokenAt(ts, i).value.s
        chevron  == TokenAt(ts, i + 1).type = "LCHEVRON"
        j1       == i + 2
        haslen   == TokenAt(ts, j1).type \in {"FLOAT", "INT"}
        j2       == IF haslen THEN j1 + 1 ELSE j1
        hascomma == TokenAt(ts, j2).type = "COMMA"
        j3       == IF hascomma THEN j2 + 1 ELSE j2
        haspitch == hascomma /\ TokenAt(ts, j3).type = "INT"
        j4       == IF haspitch THEN j3 + 1 ELSE j3
        length   == IF chevron /\ haslen
                    THEN LengthOf(TokenAt(ts, j1).value) ELSE Int_(0)
        pitch    == IF chevron /\ haspitch
                    THEN TokenAt(ts, j3).value.i ELSE 0
    IN  IF chevron /\ TokenAt(ts, j4).type # "RCHEVRON"
        THEN Parsed(j4, NoNode, ParserException(pos, "SyntaxError"))
        ELSE Parsed(IF chevron THEN j4 + 1 ELSE i + 1,
                    PhonemeNode(phoneme, length, pitch), NoError)

\* Parser.parse_phoneme
parse_phoneme(ts, i) ==
    LET pos      == TokenAt(ts, i).pos
        phoneme  == TokenAt(ts, i).value.s
        chevron  == TokenAt(ts, i + 1).type = "LCHEVRON"
        j1       == i + 2
        haslen   == TokenAt(ts, j1).type \in {"FLOAT", "INT"}
        j2       == IF haslen THEN j1 + 1 ELSE j1
        hascomma == TokenAt(ts, j2).type = "COMMA"
        j3       == IF hascomma THEN j2 + 1 ELSE j2
        haspitch == hascomma /\ TokenAt(ts, j3).type = "INT"
        j4       == IF haspitch THEN j3 + 1 ELSE j3
        length   == IF chevron /\ haslen /\ phoneme \notin PHONEMES_NOLENGTH
                    THEN LengthOf(TokenAt(ts, j1).value) ELSE Int_(0)
        pitch    == IF chevron /\ haspitch /\ phoneme \notin PHONEMES_NOPITCH
                    THEN TokenAt(ts, j3).value.i ELSE 0
    IN  IF chevron /\ TokenAt(ts, j4).type # "RCHEVRON"
        THEN Parsed(j4, NoNode, ParserException(pos, "SyntaxError"))
        ELSE Parsed(IF chevron THEN j4 + 1 ELSE i + 1,
                    PhonemeNode(phoneme, length, pitch), NoError)

\* The loop of parse_voice over the voice's parameters, from token k.
RECURSIVE ParseVoiceParameters(_, _, _, _)
ParseVoiceParameters(ts, k, pos, parameters) ==
    IF TokenAt(ts, k).type = "RBRACE"
    THEN [index |-> k + 1, parameters |-> parameters, error |-> NoError]
    ELSE IF TokenAt(ts, k).type # "STRING" \/ TokenAt(ts, k + 1).type # "INT"
    THEN [index |-> k, parameters |-> parameters,
          error |-> ParserException(pos, "SyntaxError")]
    ELSE The({ ParseVoiceParameters(ts, next, pos, more) :
               next \in { IF TokenAt(ts, k + 2).type = "COMMA" THEN k + 3 ELSE k + 2 },
               more \in { DictSet(parameters, TokenAt(ts, k).value.s,
                                  TokenAt(ts, k + 1).value.i) } })

\* Parser.parse_voice, from the token after `:voice`
parse_voice(ts, i, pos) ==
    IF TokenAt(ts, i).type # "STRING" \/ TokenAt(ts, i + 1).type # "RBRACKET"
    THEN Parsed(i, NoNode, ParserException(pos, "SyntaxError"))
    ELSE IF TokenAt(ts, i + 2).type # "LBRACE"
    THEN Parsed(i + 2, VoiceNode(TokenAt(ts, i).value.s, << >>), NoError)
    ELSE The({ IF ps.error # NoError THEN Parsed(ps.index, NoNode, ps.error)
               ELSE Parsed(ps.index, VoiceNode(TokenAt(ts, i).value.s, ps.parameters),
                           NoError) :
               ps \in { ParseVoiceParameters(ts, i + 3, pos, << >>) } })

\* The loop of parse_command over the command's parameters, from token i.
RECURSIVE ParseParameters(_, _, _, _)
ParseParameters(ts, i, pos, parameters) ==
    IF TokenAt(ts, i).type = "RBRACKET"
    THEN [index |-> i, parameters |-> parameters, error |-> NoError]
    ELSE IF TokenAt(ts, i).type \notin {"FLOAT", "INT", "STRING"}
    THEN [index |-> i, parameters |-> parameters,
          error |-> ParserException(pos, "SyntaxError")]
    ELSE The({ ParseParameters(ts, i + 1, pos, more) :
               more \in { Append(parameters, TokenAt(ts, i).value) } })

RECURSIVE parse_command(_, _), ParseContext(_, _, _, _)

\* Parser.parse_command, from the token `[`
parse_command(ts, i) ==
    LET pos == TokenAt(ts, i).pos
        t   == TokenAt(ts, i + 1)
    IN  IF t.type # "STRING"
        THEN Parsed(i + 1, NoNode, ParserException(pos, "SyntaxError"))
        ELSE IF SubSeq(t.value.s, 1, 1) # ":" \/ t.value.s = ":"
        THEN Parsed(i + 1, NoNode, ParserException(pos, "SyntaxError"))
        ELSE IF t.value.s = ":voice" THEN parse_voice(ts, i + 2, pos)
        ELSE LET command == SubSeq(t.value.s, 2, Len(t.value.s))
             IN  The({ IF ps.error # NoError THEN Parsed(ps.index, NoNode, ps.error)
                       ELSE IF TokenAt(ts, ps.index + 1).type # "LBRACE"
                       THEN Parsed(ps.index + 1,
                                   CommandNode(command, ps.parameters, << >>), NoError)
                       ELSE The({ IF c.error # NoError
                                  THEN Parsed(c.index, NoNode, c.error)
                                  ELSE Parsed(c.index,
                                              CommandNode(command, ps.parameters,
                                                          c.context),
                                              NoError) :
                                  c \in { ParseContext(ts, ps.index + 2, pos, << >>) } }) :
                       ps \in { ParseParameters(ts, i + 2, pos, << >>) } })

\* The loop of parse_command over the command's context, from token k.
ParseContext(ts, k, pos, context) ==
    IF TokenAt(ts, k).type = "RBRACE"
    THEN [index |-> k + 1, context |-> context, error |-> NoError]
    ELSE IF TokenAt(ts, k).type \notin {"LBRACKET", "COMMA", "STRING"}
    THEN [index |-> k, context |-> context,
          error |-> ParserException(pos, "TypeError")]
    ELSE The({ IF r.error # NoError
               THEN [index |-> r.index, context |-> context, error |-> r.error]
               ELSE The({ ParseContext(ts, r.index, pos, more) :
                          more \in { Append(context, r.node) } }) :
               r \in { IF TokenAt(ts, k).type = "LBRACKET" THEN parse_command(ts, k)
                       ELSE parse_phoneme(ts, k) } })

\* Parser.get_nodes, from token i with the list ns.
RECURSIVE get_nodes(_, _, _)
get_nodes(ts, i, ns) ==
    IF TokenAt(ts, i).type = "EOF"
    THEN [nodes |-> Append(ns, EofNode), error |-> NoError]
    ELSE IF TokenAt(ts, i).type \notin {"LBRACKET", "COMMA", "STRING"}
    THEN [nodes |-> << >>, error |-> ParserException(TokenAt(ts, i).pos, "TypeError")]
    ELSE The({ IF r.error # NoError THEN [nodes |-> << >>, error |-> r.error]
               ELSE The({ get_nodes(ts, r.index, more) :
                          more \in { Append(ns, r.node) } }) :
               r \in { IF TokenAt(ts, i).type = "LBRACKET" THEN parse_command(ts, i)
                       ELSE parse_phoneme(ts, i) } })

\* Lexer(text).get_tokens() and Parser(tokens).get_nodes() of a text.
Parse(text) ==
    IF Len(Strip(text)) = 0 THEN [nodes |-> << >>, error |-> ReaderException]
    ELSE The({ IF l.error # NoError THEN [nodes |-> << >>, error |-> l.error]
               ELSE get_nodes(l.tokens, 1, << >>) :
               l \in { get_tokens(rd, << >>) : rd \in { Reader(text) } } })

(***************************************************************************)
(* The front end of compile on a source text: the steps of the Lexer,      *)
(* then Parser.get_nodes with one step per iteration of its loop (index is *)
(* Parser.index into tokens, from 1) and one for the EofNode and the       *)
(* return.  Then the re-encoding of the nodes: the node at index, from the *)
(* first, is written as text (str of the node) and replaced by the nodes   *)
(* the Lexer and the Parser read from that text.                           *)
(***************************************************************************)
\* get_tokens has returned and get_nodes has not.
Parsing ==
    /\ error = NoError
    /\ done
    /\ IF nodes = << >> THEN TRUE ELSE nodes[Len(nodes)].type # "EofNode"

\* An iteration of the loop of get_nodes.
ParseNode ==
    /\ Parsing
    /\ TokenAt(tokens, index).type # "EOF"
    /\ \E r \in { IF TokenAt(tokens, index).type = "LBRACKET"
                  THEN parse_command(tokens, index)
                  ELSE IF TokenAt(tokens, index).type \in {"COMMA", "STRING"}
                  THEN parse_phoneme(tokens, index)
                  ELSE Parsed(index, NoNode,
                              ParserException(TokenAt(tokens, index).pos,
                                              "TypeError")) } :
          /\ error' = r.error
          /\ nodes' = IF r.error = NoError THEN Append(nodes, r.node) ELSE nodes
          /\ index' = r.index
    /\ UNCHANGED << reader, tokens, state, writer, done >>

\* The loop has ended: the EofNode is appended and the list returned.
ReturnNodes ==
    /\ Parsing
    /\ TokenAt(tokens, index).type = "EOF"
    /\ nodes' = Append(nodes, EofNode)
    /\ index' = 1
    /\ UNCHANGED << reader, tokens, state, writer, error, done >>

\* get_nodes has returned and a node is left to re-encode.
ReEncoding ==
    /\ error = NoError
    /\ done
    /\ nodes # << >>
    /\ nodes[Len(nodes)].type = "EofNode"
    /\ current.type # "EofNode"

ReEncode ==
    /\ ReEncoding
    /\ writer' = Repr(current)
    /\ \E r \in { Parse(Repr(current)) } :
          /\ error' = r.error
          /\ nodes' = IF r.error # NoError THEN nodes
                      ELSE SubSeq(nodes, 1, index - 1)
                               \o SubSeq(r.nodes, 1, Len(r.nodes) - 1)
                               \o SubSeq(nodes, index + 1, Len(nodes))
          /\ index' = IF r.error # NoError THEN index
                      ELSE index + Len(r.nodes) - 1
    /\ UNCHANGED << reader, tokens, state, done >>

NextRoundTrip ==
    \/ SkipWhitespace \/ ScanComment \/ ScanSpecialCharacter
    \/ ScanNumber \/ ScanString \/ ReturnTokens
    \/ ParseNode \/ ReturnNodes \/ ReEncode

\* The texts of one node the sources are made of
NodeTexts ==
    { "aa", "aa<500,10>", "_<0.5>", "[:bpm 120]", "[:rate 1.5]",
      "[:rate 0.00001]", "[:play lib/blah.wav]", "[:loop 2] {[:bpm 60]}",
      "[:loop 2] {aa<1>}", "[:voice name]", "[:voice name] {sx 1, hs 100}",
      "/* c */", "[:bpm", "5" }

\* The most nodes of a source
MaxSourceNodes == 2

\* The sources of at most n node texts, with a space between them
RECURSIVE SourcesOfNodes(_)
SourcesOfNodes(n) ==
    IF n = 0 THEN {""}
    ELSE LET shorter == SourcesOfNodes(n - 1)
         IN  shorter \cup { IF s = "" THEN t ELSE s \o " " \o t :
                            s \in shorter, t \in NodeTexts }

InitRoundTrip == InitLexerWith(SourcesOfNodes(MaxSourceNodes))

SpecRoundTrip == InitRoundTrip /\ [][NextRoundTrip]_vars

\* C20: the text of a Command, Phoneme or Voice node the Parser has
\* produced is lexed and parsed without an error into that node alone.
C20_RoundTrip ==
    [][ReEncoding => error' = NoError /\ nodes' = nodes]_vars

(***************************************************************************)
(* Voices: programs that register voices, at the top level and inside a    *)
(* loop context, and name a default voice, a registered voice and a voice  *)
(* that is not registered (the program of test_process_name among them).   *)
(***************************************************************************)
Name(name) == CommandNode("name", << PStr(name) >>, << >>)

\* [:voice name] {sx 0, hs 110}, [:voice name] {sx 1}, [:name name],
\* [:name Betty], [:name other], aa<1> and [:loop 2] {[:voice other]
\* {hs 100} [:name other]}
NameNodes ==
    { VoiceNode("name", << PKv("sx", 0), PKv("hs", 110) >>),
      VoiceNode("name", << PKv("sx", 1) >>),
      Name("name"), Name("Betty"), Name("other"), PhonemeNode("aa", Int_(1), 0),
      Loop(2, << VoiceNode("other", << PKv("hs", 100) >>), Name("other") >>) }

MaxNameNodes == 3

InitName == InitWith(Programs(NameNodes, MaxNameNodes))

SpecName == InitName /\ [][Next]_vars

\* The step about to be taken processes a top-level name command.
AtName ==
    /\ Running
    /\ current.type = "CommandNode"
    /\ current.command = "name"

\* node registers a voice called name when it is processed: it is such a
\* voice definition or a command whose context holds one.
RECURSIVE RegistersVoice(_, _), AnyRegistersVoice(_, _, _)
RegistersVoice(node, name) ==
    IF node.type = "VoiceNode" THEN node.name = name
    ELSE IF node.type = "CommandNode"
    THEN AnyRegistersVoice(node.context, 1, name)
    ELSE FALSE

AnyRegistersVoice(context, i, name) ==
    IF i > Len(context) THEN FALSE
    ELSE RegistersVoice(context[i], name)
         \/ AnyRegistersVoice(context, i + 1, name)

\* One `[:dv p v]` per parameter of a stored map, in the map's order.
RECURSIVE DvDirectives(_)
DvDirectives(map) ==
    IF map = << >> THEN ""
    ELSE "[:dv " \o Head(map).s \o " " \o ToString(Head(map).i) \o "]"
         \o DvDirectives(Tail(map))

NextFrontEnd ==
    \/ SkipWhitespace \/ ScanComment \/ ScanSpecialCharacter
    \/ ScanNumber \/ ScanString \/ ReturnTokens
    \/ ParseNode \/ ReturnNodes

\* The sources of at most n of the given texts, with a space between them
RECURSIVE SourcesOver(_, _)
SourcesOver(texts, n) ==
    IF n = 0 THEN {""}
    ELSE LET shorter == SourcesOver(texts, n - 1)
         IN  shorter \cup { IF s = "" THEN t ELSE s \o " " \o t :
                            s \in shorter, t \in texts }

(***************************************************************************)
(* Phonemes: sources of a vowel, a consonant and no-length symbols with    *)
(* the angle-bracket suffixes of test_phoneme, at the top level and in a   *)
(* context.                                                                *)
(***************************************************************************)
PhonemeSuffixes == {"", "<500>", "<0.5,13>", "<,13>"}

PhonemeTexts ==
    { name \o suffix : name \in {"aa", "b", ".", ","}, suffix \in PhonemeSuffixes }
        \cup {"/* c */", "[:loop 2] {.<500,13> b<1,13>}"}

MaxPhonemeTexts == 2

InitPhoneme == InitLexerWith(SourcesOver(PhonemeTexts, MaxPhonemeTexts))

SpecPhoneme == InitPhoneme /\ [][NextFrontEnd]_vars

\* Every Phoneme node of a node list, the nodes of contexts included, has
\* the forced length and pitch of its name.
RECURSIVE AllForced(_, _)
AllForced(ns, i) ==
    IF i > Len(ns) THEN TRUE
    ELSE LET n == ns[i]
         IN  /\ IF n.type = "PhonemeNode"
                THEN /\ n.phoneme \in PHONEMES_NOLENGTH => n.length = Int_(0)
                     /\ n.phoneme \in PHONEMES_NOPITCH => n.pitch = 0
                ELSE IF n.type = "CommandNode" THEN AllForced(n.context, 1)
                ELSE TRUE
             /\ AllForced(ns, i + 1)

\* C22: every Phoneme node the Parser has produced whose name is a
\* no-length symbol has length 0, and every one whose name is a consonant
\* or a symbol has pitch 0, whatever suffix the source gave it.
C22_ForcedLengthAndPitch == AllForced(nodes, 1)

\* `.<500> b<0.5,13>` is parsed: the symbol has lost its length and the
\* consonant, which keeps its length, its pitch.
C22_Witness ==
    /\ reader.source = ".<500> b<0.5,13>"
    /\ nodes = << PhonemeNode(".", Int_(0), 0), PhonemeNode("b", Rat(1, 2), 0),
                  EofNode >>

(***************************************************************************)
(* Validation: programs with commands that validate rejects (an unknown    *)
(* name, a wrong parameter count, a wrong keyword) at the top level,       *)
(* inside loop contexts and inside a phrase that is replayed.              *)
(***************************************************************************)
\* [:foo], [:bpm 120 60] and [:punct most]
UnknownCommand == CommandNode("foo", << >>, << >>)

TwoTempos == CommandNode("bpm", << PInt(120), PInt(60) >>, << >>)

WrongKeyword == CommandNode("punct", << PStr("most") >>, << >>)

\* [:foo], [:bpm 120 60], [:bpm 60], [:loop 1] {[:foo]},
\* [:loop 2] {[:bpm 120 60]}, [:loop 1] {[:loop 1] {[:punct most]}},
\* [:loop 1] {[:bpm 60]}, [:phrase ph] {[:punct most]}, ph and aa<1>
ValidateNodes ==
    { UnknownCommand, TwoTempos, Bpm(60),
      Loop(1, << UnknownCommand >>),
      Loop(2, << TwoTempos >>),
      Loop(1, << Loop(1, << WrongKeyword >>) >>),
      Loop(1, << Bpm(60) >>),
      Phrase("ph", << WrongKeyword >>),
      Ph("ph"),
      PhonemeNode("aa", Int_(1), 0) }

MaxValidateNodes == 2

InitValidate == InitWith(Programs(ValidateNodes, MaxValidateNodes))

SpecValidate == InitValidate /\ [][Next]_vars

\* Processing node in state st runs the handler of a Command or Voice node
\* that validate rejects: a node of a loop context or of a replayed phrase,
\* at any depth up to fuel.
RECURSIVE RunsRejected(_, _, _), AnyRunsRejected(_, _, _, _)
RunsRejected(node, st, fuel) ==
    IF fuel = 0 THEN FALSE
    ELSE IF node.type = "CommandNode" /\ node.command = "loop"
    THEN AnyRunsRejected(node.context, 1, st, fuel - 1)
    ELSE IF /\ node.type = "PhonemeNode"
            /\ node.phoneme \notin PHONEMES
            /\ node.phoneme \in DOMAIN st.phrases
    THEN AnyRunsRejected(st.phrases[node.phoneme], 1, st, fuel - 1)
    ELSE FALSE

AnyRunsRejected(context, i, st, fuel) ==
    IF i > Len(context) THEN FALSE
    ELSE \/ /\ context[i].type \in {"CommandNode", "VoiceNode"}
            /\ validate(context[i]) # NoError
         \/ RunsRejected(context[i], st, fuel)
         \/ AnyRunsRejected(context, i + 1, st, fuel)

\* C23: the handler of a Command or Voice node runs only after validate
\* has passed the node, at the top level, in a loop context at any depth
\* and in a replayed phrase: an iteration that comes to a node validate
\* rejects raises, and a rejected node leaves the state and the output as
\* they were.
C23_ValidatedBeforeHandled ==
    [][/\ Running /\ RunsRejected(current, state, MaxDepth + 1)
              => error' # NoError
       /\ (/\ Running
           /\ current.type \in {"CommandNode", "VoiceNode"}
           /\ validate(current) # NoError)
              => /\ IsValidationError(error')
                 /\ state' = state
                 /\ writer' = writer]_vars

\* The classes of the nodes of a sound definition, "" for a node that is
\* neither a consonant nor a vowel phoneme.
ClassesOf(sound) ==
    [i \in 1..Len(sound) |->
        IF sound[i].type = "PhonemeNode" THEN PhonemeClass(sound[i]) ELSE ""]

\* C24: every sound definition the state holds is a non-empty list of
\* Phoneme nodes of the shape consonant*-vowel+-consonant*, so that no
\* expansion of a sound divides by a vowel count of zero.
C24_SoundsPreValidated ==
    /\ \A name \in DOMAIN state.sounds :
          /\ Len(state.sounds[name]) >= 1
          /\ MatchesSound(ClassesOf(state.sounds[name]))
    /\ error # ZeroDivisionError

(***************************************************************************)
(* Replays: programs that register phrases (the phrase of                  *)
(* tests/test_files/import_phrase.opendec, whose body sets the tempo,      *)
(* among them) and a sound, set the tempo, and refer to them repeatedly.   *)
(***************************************************************************)
\* [:phrase a] {aa<1> iy<0.5>} and
\* [:phrase jingle] {[:play blah.wav] ba<30,10> [:loop 2] {aa<1>}}
PhraseA ==
    Phrase("a", << PhonemeNode("aa", Int_(1), 0), PhonemeNode("iy", Rat(1, 2), 0) >>)

PhraseJingle ==
    Phrase("jingle", << Play("blah.wav"), PhonemeNode("ba", Int_(30), 10),
                        Loop(2, << PhonemeNode("aa", Int_(1), 0) >>) >>)

\* [:import import_phrase.opendec], name, [:phrase a] {...}, a,
\* [:phrase jingle] {...}, jingle, [:sound ba] {b aa}, ba<30,10>, [:bpm 60]
ReplayNodes ==
    { ImportPhrase, Ph("name"), PhraseA, Ph("a"), PhraseJingle, Ph("jingle"),
      Sound("ba", << Ph("b"), Ph("aa") >>), PhonemeNode("ba", Int_(30), 10),
      Bpm(60) }

MaxReplayNodes == 4

InitReplay == InitWith(Programs(ReplayNodes, MaxReplayNodes))

SpecReplay == InitReplay /\ [][Next]_vars

\* The lengths of the phonemes of a definition, in order.
Durations(definition) ==
    [i \in 1..Len(definition) |->
        IF definition[i].type = "PhonemeNode" THEN definition[i].length
        ELSE Int_(0)]

\* The step about to be taken expands a registered phrase or sound.
AtExpansion ==
    /\ Running
    /\ current.type = "PhonemeNode"
    /\ current.phoneme \notin PHONEMES
    /\ current.phoneme \in DOMAIN state.phrases \cup DOMAIN state.sounds

\* C25: an expansion leaves every phoneme of every registered phrase and
\* sound with the length it had before, and so with the length it was
\* registered with.
C25_DefinitionsKeepDurations ==
    [][AtExpansion =>
          /\ \A name \in DOMAIN state.phrases :
                /\ name \in DOMAIN state'.phrases
                /\ Durations(state'.phrases[name]) = Durations(state.phrases[name])
          /\ \A name \in DOMAIN state.sounds :
                /\ name \in DOMAIN state'.sounds
                /\ Durations(state'.sounds[name]) = Durations(state.sounds[name])]_vars

\* The part of C25 about phrases alone.
PhrasesKeepDurations ==
    [][AtExpansion =>
          \A name \in DOMAIN state.phrases :
             /\ name \in DOMAIN state'.phrases
             /\ Durations(state'.phrases[name]) = Durations(state.phrases[name])]_vars

\* The step about to be taken replays a registered phrase that the next
\* node refers to again.
AtFirstOfTwoReplays ==
    /\ Running
    /\ current.type = "PhonemeNode"
    /\ current.phoneme \notin PHONEMES
    /\ current.phoneme \in DOMAIN state.phrases
    /\ nodes[index + 1] = current

\* No node of the context, of its loop contexts or of the phrases it
\* replays (to the given depth) is a bpm, import, phrase, sound or voice
\* command.
RECURSIVE Neutral(_, _, _)
Neutral(context, st, fuel) ==
    \A i \in 1..Len(context) :
       LET n == context[i]
       IN  IF n.type = "VoiceNode" THEN FALSE
           ELSE IF n.type = "CommandNode"
           THEN /\ n.command \notin {"bpm", "import", "phrase", "sound"}
                /\ Neutral(n.context, st, fuel)
           ELSE \/ n.phoneme \in PHONEMES
                \/ n.phoneme \notin DOMAIN st.phrases
                \/ fuel > 0 /\ Neutral(st.phrases[n.phoneme], st, fuel - 1)

\* The second of two consecutive replays, from the state the first has
\* left, completes and emits the text the first has emitted.
SecondReplayEmitsTheSame ==
    LET first  == SubSeq(writer', Len(writer) + 1, Len(writer'))
        second == process_node(state', writer', nodes'[index'], 0)
    IN  /\ second.error = NoError
        /\ second.writer = writer' \o first

\* C26 (as stated): for every registered phrase, whatever its body holds,
\* the second of two consecutive references to it emits the text the first
\* has emitted.
C26_ReplaysReproducible ==
    [][AtFirstOfTwoReplays /\ error' = NoError => SecondReplayEmitsTheSame]_vars

\* C26 (amended): for every registered phrase whose body holds, at any
\* depth, no bpm, import, phrase, sound or voice command, the second of two
\* consecutive references to it emits the text the first has emitted.
C26_NeutralReplaysReproducible ==
    [][(/\ AtFirstOfTwoReplays
        /\ Neutral(state.phrases[current.phoneme], state, MaxDepth)
        /\ error' = NoError)
           => SecondReplayEmitsTheSame]_vars

\* [:bpm 60] [:phrase a] {aa<1> iy<0.5>} a a has been processed: each
\* reference has emitted the phrase at the tempo of 60.
C26_Witness ==
    /\ nodes = << Bpm(60), PhraseA, Ph("a"), Ph("a"), EofNode >>
    /\ done
    /\ writer = "[aa<1000>][iy<500>][aa<1000>][iy<500>]"

(***************************************************************************)
(* Resolution: programs of built-in phonemes, of a phrase and a sound and  *)
(* references to them before and after their definitions, of a name that   *)
(* is never registered and of a definition under a built-in name.          *)
(***************************************************************************)
\* aa<2,10>, [:phrase a] {aa<1> iy<0.5>}, a, [:sound ba] {b aa}, ba<30,10>,
\* zz, [:bpm 60] and [:phrase b] {aa}
ResolveNodes ==
    { PhonemeNode("aa", Int_(2), 10), PhraseA, Ph("a"),
      Sound("ba", << Ph("b"), Ph("aa") >>), PhonemeNode("ba", Int_(30), 10),
      Ph("zz"), Bpm(60), Phrase("b", << Ph("aa") >>) }

MaxResolveNodes == 3

InitResolve == InitWith(Programs(ResolveNodes, MaxResolveNodes))

SpecResolve == InitResolve /\ [][Next]_vars

\* The text of a phoneme emitted verbatim with its length scaled by the
\* tempo of st.
BuiltinText(node, st) ==
    ReprPhoneme([node EXCEPT !.length = Int_(ScaledLength(node, st))])

\* The text of the replay of a phrase of built-in phonemes, from the i-th.
RECURSIVE BuiltinsText(_, _, _)
BuiltinsText(phrase, i, st) ==
    IF i > Len(phrase) THEN ""
    ELSE BuiltinText(phrase[i], st) \o BuiltinsText(phrase, i + 1, st)

\* A node before the current one defines name as a phrase or a sound.
DefinedEarlier(name) ==
    \E j \in 1..(index - 1) :
       /\ nodes[j].type = "CommandNode"
       /\ nodes[j].command \in {"phrase", "sound"}
       /\ nodes[j].parameters[1].s = name

\* C27: a Phoneme node is handled as a built-in phoneme when its symbol is
\* one, otherwise as the registered phrase of that name, otherwise as the
\* registered sound of that name; a symbol that is none of these raises
\* the unrecognized-name error and emits nothing; a reference succeeds
\* only after the definition of its name.
C27_ResolutionOrder ==
    [][(Running /\ current.type = "PhonemeNode") =>
          LET s == current.phoneme
          IN  /\ IF s \in PHONEMES
                 THEN /\ error' = NoError
                      /\ writer' = writer \o BuiltinText(current, state)
                 ELSE IF s \in DOMAIN state.phrases
                 THEN /\ error' = NoError
                      /\ writer' = writer \o BuiltinsText(state.phrases[s], 1, state)
                 ELSE IF s \in DOMAIN state.sounds
                 THEN LET sound == state.sounds[s]
                          c     == CountOf(sound, PHONEMES_CONSONANTS)
                          v     == CountOf(sound, PHONEMES_VOWELS)
                          T     == ScaledLength(current, state)
                      IN  /\ error' = NoError
                          /\ writer' = writer \o
                                 SoundTextInOrder(sound, 1,
                                     (T - CONSONANT_LENGTH * c) \div v,
                                     current.pitch)
                 ELSE /\ error' = NameError
                      /\ writer' = writer
                      /\ state' = state
              /\ (s \notin PHONEMES /\ error' = NoError) => DefinedEarlier(s)]_vars

\* a [:phrase a] {aa<1> iy<0.5>}: the reference comes before the
\* definition and has raised.
C27_Witness ==
    /\ nodes = << Ph("a"), PhraseA, EofNode >>
    /\ index = 1
    /\ error = NameError
    /\ writer = ""

\* C28: a register call that raises the Registration error leaves the
\* phrase, sound and voice maps and the tempo multiplier as they were
\* before the call (on the programs of registrations, where the step is
\* the call for a definition of the program or for the one definition of
\* an imported file).
C28_FailedRegisterKeepsState ==
    [][(/\ Running
        /\ current.type \in {"CommandNode", "VoiceNode"}
        /\ error' = RegistrationError)
           => /\ state'.phrases = state.phrases
              /\ state'.sounds = state.sounds
              /\ state'.voices = state.voices
              /\ state'.bpm_to_ms = state.bpm_to_ms]_vars

\* The two halves of test_no_shared_names, with name for same:
\* [:sound name] {aa} [:phrase name] {aa} has raised at the phrase with the
\* sound alone registered.
C28_Witness ==
    /\ nodes = << Sound("name", << PhonemeNode("aa", Int_(0), 0) >>),
                  Phrase("name", << PhonemeNode("aa", Int_(0), 0) >>), EofNode >>
    /\ index = 2
    /\ error = RegistrationError
    /\ DOMAIN state.sounds = {"name"}
    /\ DOMAIN state.phrases = {}

(***************************************************************************)
(* Loops and the state: programs of loop commands of every count from 0,   *)
(* whose contexts set the tempo, register a phrase, a voice and the sound  *)
(* of an imported file, and replay a phrase that plays a file.             *)
(***************************************************************************)
\* [:phrase tune] {[:play blah.wav] aa<1>}
PhraseTune ==
    Phrase("tune", << Play("blah.wav"), PhonemeNode("aa", Int_(1), 0) >>)

\* {_<1> [:bpm 120]}, {[:phrase a] {aa<1> iy<0.5>} a}, {tune} and
\* {[:voice name] {sx 0} [:import import_sound.opendec]}
LoopStateContexts ==
    { << PhonemeNode("_", Int_(1), 0), Bpm(120) >>,
      << PhraseA, Ph("a") >>,
      << Ph("tune") >>,
      << VoiceNode("name", << PKv("sx", 0) >>), ImportSound >> }

LoopStateNodes ==
    { Loop(n, x) : n \in 0..MaxRepeat, x \in LoopStateContexts }
    \cup { PhraseTune, PhonemeNode("_", Int_(1), 0) }

MaxLoopStateNodes == 2

InitLoopState == InitWith(Programs(LoopStateNodes, MaxLoopStateNodes))

SpecLoopState == InitLoopState /\ [][Next]_vars

\* validate passes every Command and Voice node of the list.
AllValidate(x) ==
    \A i \in 1..Len(x) :
       x[i].type \in {"CommandNode", "VoiceNode"} => validate(x[i]) = NoError

\* C29: a loop command leaves the state that one expansion of its context
\* leaves, whatever its count, 0 included: the state of one pass over the
\* context, which for a context of valid nodes is the state its nodes
\* leave when they are processed in place of the loop; and the same state
\* for every count.
C29_LoopStateOnce ==
    [][AtLoop =>
          LET x    == current.context
              once == process_context(x, 1, "", state, writer, 1)
          IN  /\ state' = once.state
              /\ error' = once.error
              /\ (AllValidate(x) /\ error' = NoError)
                    => state' = process_nodes(Append(x, EofNode), 1, state,
                                              writer, 1).state
              /\ \A n \in 0..MaxRepeat :
                    process_node(state, writer, Loop(n, x), 0).state = state']_vars

\* [:phrase tune] {[:play blah.wav] aa<1>} [:loop 0] {tune}: the loop of
\* count 0 has emitted nothing and has rewritten the path of the phrase's
\* play command.
C29_Witness ==
    /\ nodes = << PhraseTune, Loop(0, << Ph("tune") >>), EofNode >>
    /\ index = 3
    /\ writer = ""
    /\ state.phrases["tune"][1] = Play("tests/test_files/blah.wav")

(***************************************************************************)
(* Numbers: sources of numbers with and without a leading `-`, alone, as   *)
(* the count of a loop command and as the length of a phoneme.             *)
(***************************************************************************)
NumberTexts ==
    { "-1", "1", "0.5", "-0.5", "[:loop -1] {aa}", "[:loop 2] {aa}",
      "[:loop 0] {-2}", "aa<-1>", "1-", "/* c */" }

MaxNumberTexts == 2

InitNumber == InitLexerWith(SourcesOver(NumberTexts, MaxNumberTexts))

SpecNumber == InitNumber /\ [][NextFrontEnd]_vars

\* Every loop command of a node list, those of contexts included, that
\* validate passes has a count of 0 or more.
RECURSIVE ValidLoopsCountFromZero(_, _)
ValidLoopsCountFromZero(ns, i) ==
    IF i > Len(ns) THEN TRUE
    ELSE LET n == ns[i]
         IN  /\ IF n.type # "CommandNode" THEN TRUE
                ELSE /\ (n.command = "loop" /\ validate(n) = NoError)
                            => n.parameters[1].i >= 0
                     /\ ValidLoopsCountFromZero(n.context, 1)
             /\ ValidLoopsCountFromZero(ns, i + 1)

\* C30: no INT or FLOAT token of the Lexer is negative, the token of a
\* text that starts with `-` being a STRING; so every loop command the
\* Parser returns that validate passes has a count of 0 or more.
C30_NoNegativeNumbers ==
    /\ \A k \in 1..Len(tokens) :
          /\ tokens[k].type = "INT" => tokens[k].value.i >= 0
          /\ tokens[k].type = "FLOAT" => tokens[k].value.f.num >= 0
          /\ CharAt(reader.source, tokens[k].pos.index) = "-"
                => tokens[k].type = "STRING"
    /\ ValidLoopsCountFromZero(nodes, 1)

\* `[:loop -1] {aa} [:loop 2] {aa}` is parsed: the first loop has the
\* string `-1` for its count, which validate rejects, the second the
\* count 2.
C30_Witness ==
    /\ reader.source = "[:loop -1] {aa} [:loop 2] {aa}"
    /\ nodes = << CommandNode("loop", << PStr("-1") >>, << Ph("aa") >>),
                  Loop(2, << Ph("aa") >>), EofNode >>
    /\ validate(nodes[1]) # NoError
    /\ validate(nodes[2]) = NoError

====
